---- MODULE Spec2Model ----
(***************************************************************************)
(* A model of the IMP toolchain core: the code generator (codegen.cpp)     *)
(* lowering an AST to a byte-addressed bytecode stream, and the stack      *)
(* interpreter (interp.cpp) executing that stream.                         *)
(*                                                                         *)
(* Machine integers are modelled at their real width.  A value of an       *)
(* n-byte C++ type is the sequence of its n bytes in host order            *)
(* (little-endian, LP64: the layout memcpy writes on x86-64), so that a    *)
(* 64-bit integer is a sequence of 8 bytes and arithmetic is two's-        *)
(* complement arithmetic on bytes.                                         *)
(***************************************************************************)
EXTENDS Integers, Sequences, FiniteSets, TLC

\* ------------------------------------------------------------- byte words

\* sizeof(Opcode): opcodes are one byte wide.
SizeofOpcode == 1
\* sizeof(unsigned), sizeof(uint32_t).
SizeofUnsigned == 4
\* sizeof(size_t), sizeof(uint64_t), sizeof(int64_t), sizeof(RuntimeFn).
SizeofSizeT == 8

\* The n-byte little-endian image of a natural number below 2^31.
ToBytes(v, n) ==
  [i \in 1..n |->
     IF i = 1 THEN v % 256
     ELSE IF i = 2 THEN (v \div 256) % 256
     ELSE IF i = 3 THEN (v \div 65536) % 256
     ELSE IF i = 4 THEN (v \div 16777216) % 256
     ELSE 0]

\* The number a word holds when it is below 2^31, and -1 for any larger word
\* (no buffer of the model is that long, so such a word is never a valid
\* offset, index or count).
FromBytes(b) ==
  IF \A i \in 1..Len(b) : (i > 4 => b[i] = 0) /\ (i = 4 => b[i] < 128)
  THEN (IF Len(b) >= 1 THEN b[1] ELSE 0)
       + (IF Len(b) >= 2 THEN b[2] * 256 ELSE 0)
       + (IF Len(b) >= 3 THEN b[3] * 65536 ELSE 0)
       + (IF Len(b) >= 4 THEN b[4] * 16777216 ELSE 0)
  ELSE -1

\* x + y + c on words of equal length, byte by byte from position i, wrapping.
RECURSIVE AddCarry(_, _, _, _)
AddCarry(x, y, i, c) ==
  IF i > Len(x) THEN <<>>
  ELSE LET s == x[i] + y[i] + c
       IN  <<s % 256>> \o AddCarry(x, y, i + 1, s \div 256)

BitNot(x) == [i \in 1..Len(x) |-> 255 - x[i]]
WrapAdd(x, y) == AddCarry(x, y, 1, 0)
WrapSub(x, y) == LET n == BitNot(y) IN AddCarry(x, n, 1, 1)
WrapNeg(x) ==
  LET z == [i \in 1..Len(x) |-> 0]
      n == BitNot(x)
  IN  AddCarry(z, n, 1, 1)

\* The sign bit of a two's-complement word.
IsNeg(x) == x[Len(x)] >= 128
IsZero(x) == \A i \in 1..Len(x) : x[i] = 0

\* The word widened to n bytes keeping its signed value.
SignExtend(x, n) ==
  [i \in 1..n |-> IF i <= Len(x) THEN x[i] ELSE IF IsNeg(x) THEN 255 ELSE 0]

\* The word widened to n bytes keeping its unsigned value.
ZeroExtend(x, n) == [i \in 1..n |-> IF i <= Len(x) THEN x[i] ELSE 0]

\* Unsigned and signed order on words of equal length.
ULess(x, y) ==
  \E i \in 1..Len(x) : x[i] < y[i] /\ \A j \in (i + 1)..Len(x) : x[j] = y[j]
SLess(x, y) == IF IsNeg(x) # IsNeg(y) THEN IsNeg(x) ELSE ULess(x, y)

\* Sum of x[i] * y[k + 1 - i] for i in lo..k: one column of a long product.
RECURSIVE MulColumn(_, _, _, _)
MulColumn(x, y, k, i) ==
  IF i > k THEN 0 ELSE x[i] * y[k + 1 - i] + MulColumn(x, y, k, i + 1)

\* x * y on words of equal length, wrapping to that length.
RECURSIVE MulCarry(_, _, _, _)
MulCarry(x, y, k, c) ==
  IF k > Len(x) THEN <<>>
  ELSE LET s == c + MulColumn(x, y, k, 1)
       IN  <<s % 256>> \o MulCarry(x, y, k + 1, s \div 256)
WrapMul(x, y) == MulCarry(x, y, 1, 0)

\* Unsigned long division (restoring, one bit per step) in a register of
\* twice the operand width: the low half starts as the dividend and ends as
\* the quotient, the high half ends as the remainder.  d # 0 and d <= 2^63,
\* so the shifted remainder always fits the high half.
\* The steps are a function of <<register, divisor, steps left, shifted>>:
\* a step first shifts the register left by one bit, then subtracts the
\* divisor from the high half when it fits.  Bits takes up to eight steps,
\* Bytes that many groups of eight (k is a multiple of 8).
UDivMod(reg, d, k) ==
  LET Words == Seq(0..255)
      Bits[a \in Words \X Words \X (0..8) \X BOOLEAN] ==
        IF a[3] = 0 THEN a[1]
        ELSE IF ~a[4]
        THEN Bits[<<AddCarry(a[1], a[1], 1, 0), a[2], a[3], TRUE>>]
        ELSE LET w  == Len(a[2])
                 hi == SubSeq(a[1], w + 1, 2 * w)
             IN  IF ULess(hi, a[2])
                 THEN Bits[<<a[1], a[2], a[3] - 1, FALSE>>]
                 ELSE Bits[<<<<a[1][1] + 1>> \o SubSeq(a[1], 2, w)
                               \o WrapSub(hi, a[2]),
                             a[2], a[3] - 1, FALSE>>]
      Bytes[b \in Words \X Words \X (0..(k \div 8))] ==
        IF b[3] = 0 THEN b[1]
        ELSE Bytes[<<Bits[<<b[1], b[2], 8, FALSE>>], b[2], b[3] - 1>>]
  IN  Bytes[<<reg, d, k \div 8>>]

\* The magnitude of a signed word, as an unsigned word of the same length.
Magnitude(x) == IF IsNeg(x) THEN WrapNeg(x) ELSE x

\* C++ lhs / rhs and lhs % rhs for rhs # 0 (quotient truncated towards zero,
\* remainder with the sign of lhs), wrapped to the operand width.
TruncDiv(lhs, rhs) ==
  LET w == Len(lhs)
      Signed[q \in Seq(0..255)] ==
        IF IsNeg(lhs) # IsNeg(rhs) THEN WrapNeg(q) ELSE q
  IN  Signed[SubSeq(UDivMod(Magnitude(lhs) \o [i \in 1..w |-> 0],
                           Magnitude(rhs), 8 * w),
                   1, w)]
TruncMod(lhs, rhs) ==
  LET w == Len(lhs)
      Signed[r \in Seq(0..255)] == IF IsNeg(lhs) THEN WrapNeg(r) ELSE r
  IN  Signed[SubSeq(UDivMod(Magnitude(lhs) \o [i \in 1..w |-> 0],
                           Magnitude(rhs), 8 * w),
                   w + 1, 2 * w)]

\* 64-bit constants.
I64(v) == ToBytes(v, SizeofSizeT)
I64Neg(v) == WrapNeg(I64(v))
INT64_MAX == <<255, 255, 255, 255, 255, 255, 255, 127>>
INT64_MIN == <<0, 0, 0, 0, 0, 0, 0, 128>>

\* ------------------------------------------------------------------- AST

\* Expressions.
IntExpr(n) == [kind |-> "INT", n |-> n]
RefExpr(name) == [kind |-> "REF", name |-> name]
BinaryExpr(op, lhs, rhs) == [kind |-> "BINARY", op |-> op, lhs |-> lhs, rhs |-> rhs]
CallExpr(callee, args) == [kind |-> "CALL", callee |-> callee, args |-> args]

\* A null statement or expression pointer.
Null == [kind |-> "NULL"]

\* Statements.
BlockStmt(body) == [kind |-> "BLOCK", body |-> body]
WhileStmt(cond, stmt) == [kind |-> "WHILE", cond |-> cond, stmt |-> stmt]
IfStmt(cond, stmt, elseStmt) ==
  [kind |-> "IF", cond |-> cond, stmt |-> stmt, elseStmt |-> elseStmt]
ExprStmt(expr) == [kind |-> "EXPR", expr |-> expr]
ReturnStmt(expr) == [kind |-> "RETURN", expr |-> expr]
LetStmt(name, init) == [kind |-> "LET", name |-> name, init |-> init]

\* Top-level items of a module.
FuncDecl(name, args, body) ==
  [kind |-> "FUNC", name |-> name, args |-> args, body |-> body]
ProtoDecl(name, primitive) ==
  [kind |-> "PROTO", name |-> name, primitive |-> primitive]
TopStmt(stmt) == [kind |-> "STMT", stmt |-> stmt]

\* ------------------------------------------------------- bytecode format

\* The opcode bytes, numbered in the order the format lists them.
Opcode ==
  [PUSH_FUNC |-> 0, PUSH_PROTO |-> 1, PUSH_INT |-> 2, PEEK |-> 3, POP |-> 4,
   CALL |-> 5, ADD |-> 6, SUB |-> 7, MUL |-> 8, DIV |-> 9, MOD |-> 10,
   GREATER |-> 11, LOWER |-> 12, GREATER_EQ |-> 13, LOWER_EQ |-> 14,
   IS_EQ |-> 15, RET |-> 16, JUMP_FALSE |-> 17, JUMP |-> 18, STOP |-> 19]
OpcodeNames == DOMAIN Opcode
OpcodeName(b) == CHOOSE n \in OpcodeNames : Opcode[n] = b

\* The runtime primitive table: primitive name -> host function.  A host
\* function pointer is an opaque non-null 8-byte handle.
kRuntimeFns == [print_int |-> I64(4096)]

\* ---------------------------------------------------------------- codegen

EmptyMap == [k \in {} |-> 0]
\* std::map::emplace: inserts only when the key is absent.
MapEmplace(m, k, v) == IF k \in DOMAIN m THEN m ELSE m @@ (k :> v)
\* std::map::operator[] assignment: inserts or overwrites.
MapAssign(m, k, v) == [j \in DOMAIN m \cup {k} |-> IF j = k THEN v ELSE m[j]]

\* A freshly constructed Codegen.  The fields ops, sites and layout are
\* history: which opcode was emitted at which offset with which depth
\* counter, which label each address immediate refers to, and which bytes
\* each top-level item produced.
NewCodegen ==
  [code |-> <<>>, depth |-> 0, nextLabel |-> 0, labelToAddress |-> EmptyMap,
   fixups |-> EmptyMap, funcs |-> EmptyMap, protos |-> EmptyMap,
   func |-> -1, scopes |-> <<>>, abort |-> "",
   ops |-> <<>>, sites |-> <<>>, layout |-> <<>>, whiles |-> <<>>,
   calls |-> <<>>]

\* A failed assert: the translation aborts there.
Fail(s, msg) == IF s.abort # "" THEN s ELSE [s EXCEPT !.abort = msg]

\* template<typename T> Emit(const T &t): append the bytes of t.
Emit(s, bytes) == IF s.abort # "" THEN s ELSE [s EXCEPT !.code = @ \o bytes]

\* Emit<Opcode>(op), recording the opcode's offset and the depth counter.
EmitOpcode(s, op) ==
  IF s.abort # "" THEN s
  ELSE [s EXCEPT !.code = @ \o <<Opcode[op]>>,
                 !.ops = Append(@, [off |-> Len(s.code), op |-> op,
                                    depth |-> s.depth])]

MakeLabel(s) == [s EXCEPT !.nextLabel = @ + 1]

\* The code with the low n bytes of word w copied to offset loc.
Patch(code, loc, w, n) ==
  [i \in 1..Len(code) |->
     IF i > loc /\ i <= loc + n THEN w[i - loc] ELSE code[i]]

RECURSIVE PatchAll(_, _, _, _)
PatchAll(code, locs, w, i) ==
  IF i > Len(locs) THEN code
  ELSE PatchAll(Patch(code, locs[i], w, SizeofUnsigned), locs, w, i + 1)

\* The fixup locations recorded for a label.
FixupsOf(s, label) == IF label \in DOMAIN s.fixups THEN s.fixups[label] ELSE <<>>

\* EmitLabel without the loop over the recorded fixups.
EmitLabelUnpatched(s, label) ==
  IF s.abort # "" THEN s
  ELSE [s EXCEPT !.fixups = MapEmplace(@, label, <<>>),
                 !.labelToAddress = MapEmplace(@, label, Len(s.code))]

EmitLabel(s, label) ==
  IF s.abort # "" THEN s
  ELSE [s EXCEPT !.code = PatchAll(s.code, FixupsOf(s, label),
                                   ToBytes(Len(s.code), SizeofSizeT), 1),
                 !.fixups = MapEmplace(@, label, <<>>),
                 !.labelToAddress = MapEmplace(@, label, Len(s.code))]

EmitFixup(s, label) ==
  IF s.abort # "" THEN s
  ELSE IF label \in DOMAIN s.labelToAddress
  THEN [s EXCEPT !.code = @ \o ToBytes(s.labelToAddress[label], SizeofSizeT),
                 !.sites = Append(@, [off |-> Len(s.code), label |-> label])]
  ELSE [s EXCEPT !.fixups = MapAssign(@, label,
                              Append(FixupsOf(s, label), Len(s.code))),
                 !.code = @ \o ToBytes(0, SizeofSizeT),
                 !.sites = Append(@, [off |-> Len(s.code), label |-> label])]

\* An emitter that asserts depth_ > 0, decrements it and emits one opcode.
EmitDec(s, op) ==
  IF s.abort # "" THEN s
  ELSE IF ~(s.depth > 0) THEN Fail(s, "no elements on stack")
  ELSE EmitOpcode([s EXCEPT !.depth = @ - 1], op)

\* An emitter that increments depth_ and emits one opcode.
EmitInc(s, op) ==
  IF s.abort # "" THEN s
  ELSE EmitOpcode([s EXCEPT !.depth = @ + 1], op)

\* Emit<unsigned>(depth_); Emit<unsigned>(func_ ? func_->arg_size() : 0);
EmitReturnOperands(s) ==
  Emit(s, ToBytes(s.depth, SizeofUnsigned)
          \o ToBytes(IF s.func >= 0 THEN s.func ELSE 0, SizeofUnsigned))

EmitPop(s) == EmitDec(s, "POP")
EmitCall(s, nargs) == EmitOpcode(s, "CALL")
EmitPushFunc(s, entry) == EmitFixup(EmitInc(s, "PUSH_FUNC"), entry)
EmitPushProto(s, fn) == Emit(EmitInc(s, "PUSH_PROTO"), fn)
EmitPeek(s, index) == Emit(EmitInc(s, "PEEK"), ToBytes(index, SizeofUnsigned))
EmitInt(s, n) == Emit(EmitInc(s, "PUSH_INT"), n)
EmitReturn(s) == EmitReturnOperands(EmitDec(s, "RET"))
EmitAdd(s) == EmitDec(s, "ADD")
EmitSub(s) == EmitDec(s, "SUB")
EmitMul(s) == EmitDec(s, "MUL")
EmitDiv(s) == EmitDec(s, "DIV")
EmitMod(s) == EmitDec(s, "MOD")
EmitGreater(s) == EmitDec(s, "GREATER")
EmitLower(s) == EmitDec(s, "LOWER")
EmitGreaterEqual(s) == EmitDec(s, "GREATER_EQ")
EmitLowerEqual(s) == EmitDec(s, "LOWER_EQ")
EmitIsEqual(s) == EmitDec(s, "IS_EQ")
EmitJumpFalse(s, label) == EmitFixup(EmitDec(s, "JUMP_FALSE"), label)
EmitJump(s, label) == EmitFixup(EmitOpcode(s, "JUMP"), label)

\* ----------------------------------------------------------------- scopes

\* The scope chain, outermost first: scopes[1] is the GlobalScope, whose
\* tables are the funcs and protos fields of the codegen state.
GlobalScope == [kind |-> "GLOBAL", names |-> EmptyMap]
FuncScope(args) == [kind |-> "FUNC", names |-> args]
BlockScope == [kind |-> "BLOCK", names |-> EmptyMap]

\* Scope::Lookup from scope i outwards.
RECURSIVE Lookup(_, _, _)
Lookup(s, name, i) ==
  IF i < 1 THEN [Kind |-> "UNBOUND"]
  ELSE LET scope == s.scopes[i]
       IN  IF scope.kind = "GLOBAL"
           THEN IF name \in DOMAIN s.funcs
                THEN [Kind |-> "FUNC", Entry |-> s.funcs[name]]
                ELSE IF name \in DOMAIN s.protos
                THEN [Kind |-> "PROTO", Fn |-> s.protos[name]]
                ELSE [Kind |-> "UNBOUND"]
           ELSE IF name \in DOMAIN scope.names
           THEN [Kind |-> IF scope.kind = "FUNC" THEN "ARG" ELSE "LOCAL",
                 Index |-> scope.names[name]]
           ELSE Lookup(s, name, i - 1)

\* Scope::AddLocal on the innermost scope: a BlockScope records the name with
\* the depth snapshot; the other scope kinds hold no locals.
AddLocal(s, name, index) ==
  LET n == Len(s.scopes)
  IN  IF s.scopes[n].kind = "BLOCK"
      THEN [s EXCEPT !.scopes[n].names = MapAssign(@, name, index)]
      ELSE s

\* BlockScope::NumberOfLocals of the innermost scope.
NumberOfLocals(s) == Cardinality(DOMAIN s.scopes[Len(s.scopes)].names)

\* --------------------------------------------------------------- lowering

\* The lowering operators call one another; all are declared ahead.
RECURSIVE LowerExpr(_, _)
RECURSIVE LowerStmt(_, _)
RECURSIVE LowerBinaryExpr(_, _)
RECURSIVE LowerCallExpr(_, _)
RECURSIVE LowerArgsInOrder(_, _, _)
RECURSIVE LowerArgsReversed(_, _, _)
RECURSIVE LowerStmts(_, _, _)
RECURSIVE LowerBlockStmt(_, _)
RECURSIVE LowerWhileStmt(_, _)
RECURSIVE LowerIfStmt(_, _)
RECURSIVE LowerElse(_, _)
RECURSIVE LowerLetStmt(_, _)
RECURSIVE LowerReturnStmt(_, _)
RECURSIVE LowerExprStmt(_, _)

\* The switch with an argument index that leaves out the saved pc.
EmitBindingNoSavedPc(s, binding) ==
  CASE binding.Kind = "FUNC"  -> EmitPushFunc(s, binding.Entry)
    [] binding.Kind = "PROTO" -> EmitPushProto(s, binding.Fn)
    [] binding.Kind = "ARG"   -> EmitPeek(s, s.depth + binding.Index)
    [] binding.Kind = "LOCAL" -> EmitPeek(s, s.depth - binding.Index)
    [] OTHER                  -> Fail(s, "name not bound")

\* The switch of LowerRefExpr over the kind of the binding.
EmitBinding(s, binding) ==
  CASE binding.Kind = "FUNC"  -> EmitPushFunc(s, binding.Entry)
    [] binding.Kind = "PROTO" -> EmitPushProto(s, binding.Fn)
    [] binding.Kind = "ARG"   -> EmitPeek(s, s.depth + binding.Index + 1)
    [] binding.Kind = "LOCAL" -> EmitPeek(s, s.depth - binding.Index)
    [] OTHER                  -> Fail(s, "name not bound")

LowerRefExpr(s, expr) == EmitBinding(s, Lookup(s, expr.name, Len(s.scopes)))

\* The switch of LowerBinaryExpr over the operator kind.
EmitBinaryKind(s, kind) ==
  CASE kind = "ADD"        -> EmitAdd(s)
    [] kind = "SUB"        -> EmitSub(s)
    [] kind = "MUL"        -> EmitMul(s)
    [] kind = "DIV"        -> EmitDiv(s)
    [] kind = "MOD"        -> EmitMod(s)
    [] kind = "GREATER"    -> EmitGreater(s)
    [] kind = "LOWER"      -> EmitLower(s)
    [] kind = "GREATER_EQ" -> EmitGreaterEqual(s)
    [] kind = "LOWER_EQ"   -> EmitLowerEqual(s)
    [] kind = "IS_EQ"      -> EmitIsEqual(s)

\* LowerExpr(lhs); LowerExpr(rhs); then the operator's emitter.
LowerBinaryExpr(s, binary) ==
  EmitBinaryKind(LowerExpr(LowerExpr(s, binary.lhs), binary.rhs), binary.op)

\* The arguments args[1..i], lowered from the first up to the last.
LowerArgsInOrder(s, args, i) ==
  IF i < 1 THEN s
  ELSE LowerExpr(LowerArgsInOrder(s, args, i - 1), args[i])

\* The arguments args[1..i], lowered from the last down to the first.
LowerArgsReversed(s, args, i) ==
  IF i < 1 THEN s
  ELSE LowerArgsReversed(LowerExpr(s, args[i]), args, i - 1)

\* depth_ -= call.arg_size().  The depth recorded for the CALL opcode is the
\* counter once the arguments are taken off it; calls keeps, per CALL, its
\* offset and the number of arguments lowered before it.
TakeArgs(s, nargs) ==
  IF s.abort # "" THEN s
  ELSE [s EXCEPT !.depth = @ - nargs,
                 !.ops[Len(s.ops)].depth = s.depth - nargs,
                 !.calls = Append(@, [off |-> s.ops[Len(s.ops)].off,
                                      nargs |-> nargs])]

LowerCallExpr(s, call) ==
  TakeArgs(EmitCall(LowerExpr(LowerArgsReversed(s, call.args, Len(call.args)),
                              call.callee),
                    Len(call.args)),
           Len(call.args))

LowerIntExpr(s, number) == EmitInt(s, number.n)

LowerExpr(s, expr) ==
  IF s.abort # "" THEN s
  ELSE CASE expr.kind = "REF"    -> LowerRefExpr(s, expr)
         [] expr.kind = "BINARY" -> LowerBinaryExpr(s, expr)
         [] expr.kind = "CALL"   -> LowerCallExpr(s, expr)
         [] expr.kind = "INT"    -> LowerIntExpr(s, expr)

LowerStmts(s, body, i) ==
  IF i > Len(body) THEN s
  ELSE LowerStmts(LowerStmt(s, body[i]), body, i + 1)

RECURSIVE EmitPops(_, _)
EmitPops(s, n) == IF n <= 0 THEN s ELSE EmitPops(EmitPop(s), n - 1)

\* The end of a block: one POP per local of the block scope, the scope is
\* left, and the depth counter must be back at its value on entry.
PopLocals(s) == EmitPops(s, NumberOfLocals(s))
LeaveScope(s) == [s EXCEPT !.scopes = SubSeq(@, 1, Len(@) - 1)]
LeaveBlock(s, depthIn) ==
  IF s.abort = "" /\ s.depth # depthIn
  THEN Fail(LeaveScope(s), "mismatched block depth on exit")
  ELSE LeaveScope(s)

LowerBlockStmt(s, blockStmt) ==
  LeaveBlock(PopLocals(LowerStmts([s EXCEPT !.scopes = Append(@, BlockScope)],
                                  blockStmt.body, 1)),
             s.depth)

\* History: the offsets the entry and exit labels of a while were bound at.
RecordWhile(s, entryAt) ==
  IF s.abort # "" THEN s
  ELSE [s EXCEPT !.whiles = Append(@, [entry |-> entryAt, exit |-> Len(s.code)])]

\* entry and exit are the two labels MakeLabel hands out next.
LowerWhileStmt(s, whileStmt) ==
  LET entry == s.nextLabel + 1
      exit  == s.nextLabel + 2
  IN  RecordWhile(
        EmitLabel(
          EmitJump(
            LowerStmt(
              EmitJumpFalse(
                LowerExpr(EmitLabel(MakeLabel(MakeLabel(s)), entry),
                          whileStmt.cond),
                exit),
              whileStmt.stmt),
            entry),
          exit),
        Len(s.code))

\* if (auto *elseStmt = ifStmt.GetElseStmt()) LowerStmt(scope, *elseStmt);
LowerElse(s, elseStmt) ==
  IF elseStmt.kind # "NULL" THEN LowerStmt(s, elseStmt) ELSE s

\* entry, elseLabel and exit are the three labels MakeLabel hands out next.
LowerIfStmt(s, ifStmt) ==
  LET entry     == s.nextLabel + 1
      elseLabel == s.nextLabel + 2
      exit      == s.nextLabel + 3
  IN  EmitLabel(
        LowerElse(
          EmitLabel(
            EmitJump(
              LowerStmt(
                EmitJumpFalse(
                  LowerExpr(EmitLabel(MakeLabel(MakeLabel(MakeLabel(s))), entry),
                            ifStmt.cond),
                  elseLabel),
                ifStmt.stmt),
              exit),
            elseLabel),
          ifStmt.elseStmt),
        exit)

\* if (auto *init = letStmt.GetInit()) LowerExpr(scope, *init);
LowerInit(s, init) == IF init.kind # "NULL" THEN LowerExpr(s, init) ELSE s

\* scope.AddLocal(letStmt.GetName(), depth_)
BindLocal(s, name) == IF s.abort # "" THEN s ELSE AddLocal(s, name, s.depth)

LowerLetStmt(s, letStmt) == BindLocal(LowerInit(s, letStmt.init), letStmt.name)

LowerReturnStmt(s, retStmt) == EmitReturn(LowerExpr(s, retStmt.expr))

LowerExprStmt(s, exprStmt) == EmitPop(LowerExpr(s, exprStmt.expr))

LowerStmt(s, stmt) ==
  IF s.abort # "" THEN s
  ELSE CASE stmt.kind = "BLOCK"  -> LowerBlockStmt(s, stmt)
         [] stmt.kind = "WHILE"  -> LowerWhileStmt(s, stmt)
         [] stmt.kind = "IF"     -> LowerIfStmt(s, stmt)
         [] stmt.kind = "EXPR"   -> LowerExprStmt(s, stmt)
         [] stmt.kind = "RETURN" -> LowerReturnStmt(s, stmt)
         [] stmt.kind = "LET"    -> LowerLetStmt(s, stmt)

\* args[it->first] = args.size() over the declared arguments, in order.
RECURSIVE ArgIndices(_, _, _)
ArgIndices(args, i, m) ==
  IF i > Len(args) THEN m
  ELSE ArgIndices(args, i + 1, MapAssign(m, args[i], Cardinality(DOMAIN m)))

\* The depth counter must be zero; func_ is set and the scope with the
\* argument indices is entered.
EnterFunc(s, decl) ==
  IF s.abort # "" THEN s
  ELSE IF s.depth # 0 THEN Fail(s, "invalid stack depth in global scope")
  ELSE [s EXCEPT !.func = Len(decl.args),
                 !.scopes = Append(@, FuncScope(ArgIndices(decl.args, 1, EmptyMap)))]

\* The function's scope is left, the depth counter must be zero again and
\* func_ is reset.
LeaveFunc(s) ==
  IF s.abort # "" THEN s
  ELSE IF s.depth # 0
  THEN Fail(LeaveScope(s), "invalid stack depth on function exit")
  ELSE [s EXCEPT !.func = -1, !.scopes = SubSeq(@, 1, Len(@) - 1)]

LowerFuncDecl(s, decl) ==
  IF s.abort # "" THEN s
  ELSE IF decl.name \notin DOMAIN s.funcs THEN Fail(s, "missing function label")
  ELSE LeaveFunc(LowerBlockStmt(EnterFunc(EmitLabel(s, s.funcs[decl.name]), decl),
                                decl.body))

\* -------------------------------------------------------------- Translate

\* The pre-pass over one item: a prototype is bound to its runtime function,
\* a function gets a freshly made label.
Declare(s, item) ==
  CASE item.kind = "PROTO" ->
         IF item.primitive \in DOMAIN kRuntimeFns
         THEN [s EXCEPT !.protos =
                 MapEmplace(@, item.name, kRuntimeFns[item.primitive])]
         ELSE Fail(s, "missing prototype")
    [] item.kind = "FUNC" ->
         [s EXCEPT !.nextLabel = @ + 1,
                   !.funcs = MapEmplace(@, item.name, s.nextLabel + 1)]
    [] OTHER -> s

\* The pre-pass over the items from i on.
RECURSIVE PrePass(_, _, _)
PrePass(s, mod, i) ==
  IF i > Len(mod) \/ s.abort # "" THEN s
  ELSE PrePass(Declare(s, mod[i]), mod, i + 1)

\* History: module item `item` was lowered to the bytes from..Len(code)-1.
Placed(s, kind, item, from) ==
  [s EXCEPT !.layout = Append(@, [kind |-> kind, item |-> item,
                                  from |-> from, to |-> Len(s.code)])]

\* The top-level statements from item i on, in source order.
RECURSIVE LowerTopLevel(_, _, _)
LowerTopLevel(s, mod, i) ==
  IF i > Len(mod) \/ s.abort # "" THEN s
  ELSE IF mod[i].kind # "STMT" THEN LowerTopLevel(s, mod, i + 1)
  ELSE LowerTopLevel(Placed(LowerStmt(s, mod[i].stmt), "STMT", i, Len(s.code)),
                     mod, i + 1)

\* Emit<Opcode>(Opcode::STOP) after the top-level statements.
EmitStop(s) ==
  IF s.abort # "" THEN s
  ELSE Placed(EmitOpcode(s, "STOP"), "STOP", 0, Len(s.code))

\* The function declarations from item i on, in source order.
RECURSIVE LowerFuncs(_, _, _)
LowerFuncs(s, mod, i) ==
  IF i > Len(mod) \/ s.abort # "" THEN s
  ELSE IF mod[i].kind # "FUNC" THEN LowerFuncs(s, mod, i + 1)
  ELSE LowerFuncs(Placed(LowerFuncDecl(s, mod[i]), "FUNC", i, Len(s.code)),
                  mod, i + 1)

\* The global scope is entered for the lowering and left after it.
EnterGlobal(s) == [s EXCEPT !.scopes = <<GlobalScope>>]
LeaveGlobal(s) == [s EXCEPT !.scopes = <<>>]

\* Codegen::Translate up to the return statement: the codegen state whose
\* code field is the buffer the Program is made from.
Translate(cg, mod) ==
  IF Len(cg.code) # 0 THEN Fail(cg, "expected empty code section")
  ELSE LeaveGlobal(
         LowerFuncs(EmitStop(LowerTopLevel(EnterGlobal(PrePass(cg, mod, 1)),
                                           mod, 1)),
                    mod, 1))

\* ------------------------------------------------------------ interpreter

VARIABLES
  m,        \* the module being compiled and run: an index into Modules
  tree,     \* the expression the parser returned, Null before it has run
  phase,    \* "parsed" before Translate, then "translated" or "aborted"
  cg,       \* the Codegen object
  prog,     \* the Program's byte buffer
  pc,       \* Interp::pc_, a byte offset into prog
  stack,    \* Interp::stack_, bottom first
  status,   \* "running", "stopped" (STOP), "fault" (RuntimeError thrown) or
            \* "crashed" (the run left the fault protocol: a foreign
            \* exception, a signal, or undefined behaviour, after which
            \* nothing is guaranteed)
  fault,    \* the message of the RuntimeError thrown, "" when none
  sink,     \* the values the host primitive print_int has emitted
  frames,   \* history: one record per CALL to an address not yet returned from
  heights,  \* history: the stack height when each running while was entered
  last      \* history: the opcode executed by the latest step and its offset

vars == <<m, tree, phase, cg, prog, pc, stack, status, fault, sink, frames, heights, last>>

\* Runtime values.
IntValue(v) == [Kind |-> "INT", Val |-> v]
AddrValue(v) == [Kind |-> "ADDR", Val |-> v]
ProtoValue(v) == [Kind |-> "PROTO", Val |-> v]

\* Value::operator bool: false exactly for the Int 0.
Truthy(v) == ~(v.Kind = "INT" /\ IsZero(v.Val))

\* Program::Read<T>: the n bytes at offset at.
ReadBytes(at, n) == [i \in 1..n |-> prog[at + i]]
InBuffer(at, n) == at >= 0 /\ at + n <= Len(prog)

\* The opcode at pc_ and the size of its immediates.
ImmediateSize(op) ==
  CASE op \in {"PUSH_FUNC", "PUSH_PROTO", "PUSH_INT", "JUMP_FALSE", "JUMP"} -> SizeofSizeT
    [] op = "PEEK" -> SizeofUnsigned
    [] op = "RET"  -> SizeofUnsigned + SizeofUnsigned
    [] OTHER       -> 0
\* A fetch loop that a thrown RuntimeError does not leave.
FetchesAfterFault(op) ==
  /\ phase = "translated"
  /\ status \in {"running", "fault"}
  /\ InBuffer(pc, SizeofOpcode)
  /\ prog[pc + 1] = Opcode[op]
  /\ InBuffer(pc + SizeofOpcode, ImmediateSize(op))
Fetches(op) ==
  /\ phase = "translated"
  /\ status = "running"
  /\ InBuffer(pc, SizeofOpcode)
  /\ prog[pc + 1] = Opcode[op]
  /\ InBuffer(pc + SizeofOpcode, ImmediateSize(op))

Top(k) == stack[Len(stack) - k]
Drop(k) == SubSeq(stack, 1, Len(stack) - k)

\* How a step ends, besides moving pc_ and the stack.
Continue(op) ==
  /\ status' = "running"
  /\ fault' = ""
  /\ last' = [off |-> pc, op |-> op]
\* throw RuntimeError(msg): Run is left, nothing runs afterwards.
Throw(op, msg) ==
  /\ status' = "fault"
  /\ fault' = msg
  /\ last' = [off |-> pc, op |-> op]
Crash(op) ==
  /\ status' = "crashed"
  /\ fault' = ""
  /\ last' = [off |-> pc, op |-> op]

\* History: a while is entered when control comes to its entry label from
\* anywhere but its own JUMP; it is keyed by the frame it runs in.
JumpSize == SizeofOpcode + SizeofSizeT
EntersWhile ==
  /\ status' = "running"
  /\ \E i \in 1..Len(cg.whiles) :
       /\ cg.whiles[i].entry = pc'
       /\ ~(/\ pc = cg.whiles[i].exit - JumpSize
            /\ <<Len(frames'), pc'>> \in DOMAIN heights)
TrackWhiles ==
  heights' =
    IF EntersWhile
    THEN [k \in {k \in DOMAIN heights : k[1] <= Len(frames')} \cup {<<Len(frames'), pc'>>} |->
            IF k = <<Len(frames'), pc'>> THEN Len(stack') ELSE heights[k]]
    ELSE [k \in {k \in DOMAIN heights : k[1] <= Len(frames')} |-> heights[k]]

Unchanged == UNCHANGED <<m, tree, phase, cg, prog>> /\ TrackWhiles

ExecPushFunc ==
  /\ Fetches("PUSH_FUNC")
  /\ stack' = Append(stack, AddrValue(ReadBytes(pc + 1, SizeofSizeT)))
  /\ pc' = pc + 1 + SizeofSizeT
  /\ Continue("PUSH_FUNC")
  /\ UNCHANGED <<sink, frames>> /\ Unchanged

ExecPushProto ==
  /\ Fetches("PUSH_PROTO")
  /\ stack' = Append(stack, ProtoValue(ReadBytes(pc + 1, SizeofSizeT)))
  /\ pc' = pc + 1 + SizeofSizeT
  /\ Continue("PUSH_PROTO")
  /\ UNCHANGED <<sink, frames>> /\ Unchanged

ExecPushInt ==
  /\ Fetches("PUSH_INT")
  /\ stack' = Append(stack, IntValue(ReadBytes(pc + 1, SizeofSizeT)))
  /\ pc' = pc + 1 + SizeofSizeT
  /\ Continue("PUSH_INT")
  /\ UNCHANGED <<sink, frames>> /\ Unchanged

\* *(stack_.rbegin() + idx): reading below the bottom is undefined.
ExecPeek ==
  /\ Fetches("PEEK")
  /\ LET idx == FromBytes(ReadBytes(pc + 1, SizeofUnsigned))
     IN  /\ pc' = pc + 1 + SizeofUnsigned
         /\ IF idx >= 0 /\ idx < Len(stack)
            THEN stack' = Append(stack, Top(idx)) /\ Continue("PEEK")
            ELSE stack' = stack /\ Crash("PEEK")
  /\ UNCHANGED <<sink, frames>> /\ Unchanged

ExecPop ==
  /\ Fetches("POP")
  /\ pc' = pc + 1
  /\ IF Len(stack) >= 1
     THEN stack' = Drop(1) /\ Continue("POP")
     ELSE stack' = stack /\ Crash("POP")
  /\ UNCHANGED <<sink, frames>> /\ Unchanged

\* The deepest nesting of calls the model follows.
MaxFrames == 8

\* The host primitive print_int: takes its Int argument off the stack, emits
\* it to the sink and pushes its result.
PrintInt(rest) ==
  IF Len(rest) < 1 THEN stack' = rest /\ sink' = sink /\ Crash("CALL")
  ELSE IF rest[Len(rest)].Kind # "INT"
  THEN /\ stack' = SubSeq(rest, 1, Len(rest) - 1)
       /\ sink' = sink
       /\ Throw("CALL", "type error")
  ELSE /\ stack' = Append(SubSeq(rest, 1, Len(rest) - 1), IntValue(I64(0)))
       /\ sink' = Append(sink, rest[Len(rest)].Val)
       /\ Continue("CALL")

\* CALL with a Proto callee: (*callee.Val.Proto)(*this).
CallProto(callee, rest) ==
  /\ pc' = pc + 1
  /\ frames' = frames
  /\ IF callee.Val = kRuntimeFns.print_int
     THEN PrintInt(rest)
     ELSE stack' = rest /\ sink' = sink /\ Crash("CALL")

\* CALL with an Addr callee: Push(pc_); pc_ = callee.Val.Addr.  The frame
\* record keeps the offset of the CALL, the stack under the callee value and
\* the height of the stack once the return address is on it.
CallAddr(callee, rest) ==
  /\ Len(frames) < MaxFrames
  /\ stack' = Append(rest, AddrValue(ToBytes(pc + 1, SizeofSizeT)))
  /\ pc' = FromBytes(callee.Val)
  /\ frames' = Append(frames, [site |-> pc, entry |-> FromBytes(callee.Val),
                               below |-> rest, base |-> Len(rest) + 1])
  /\ sink' = sink
  /\ Continue("CALL")

\* An Int callee that is put back and stepped over.
CallIntPushes(callee, rest) ==
  /\ pc' = pc + 1
  /\ stack' = Append(rest, callee)
  /\ UNCHANGED <<sink, frames>>
  /\ Continue("CALL")

\* CALL with an Int callee.
CallInt(callee, rest) ==
  /\ pc' = pc + 1
  /\ stack' = rest
  /\ UNCHANGED <<sink, frames>>
  /\ Throw("CALL", "cannot call integer")

ExecCall ==
  /\ Fetches("CALL")
  /\ IF Len(stack) < 1
     THEN pc' = pc + 1 /\ stack' = stack /\ UNCHANGED <<sink, frames>> /\ Crash("CALL")
     ELSE LET callee == Top(0)
              rest   == Drop(1)
          IN  CASE callee.Kind = "PROTO" -> CallProto(callee, rest)
                [] callee.Kind = "ADDR"  -> CallAddr(callee, rest)
                [] callee.Kind = "INT"   -> CallInt(callee, rest)
  /\ Unchanged

\* ---------------------------------------------------- arithmetic opcodes

\* What an arithmetic or comparison opcode may do with its operands.
Pushes(v) == [kind |-> "push", val |-> v, msg |-> ""]
Throws(msg) == [kind |-> "fault", val |-> <<>>, msg |-> msg]
Crashes == [kind |-> "crash", val |-> <<>>, msg |-> ""]

\* Whether the exact sum, difference or product of two signed words lies
\* outside the range of their width: computed at a width that holds it.
AddOverflows(lhs, rhs) ==
  LET n == Len(lhs) + 1
      a == SignExtend(lhs, n)
      b == SignExtend(rhs, n)
      e == WrapAdd(a, b)
  IN  e # SignExtend(SubSeq(e, 1, Len(lhs)), n)
SubOverflows(lhs, rhs) ==
  LET n == Len(lhs) + 1
      a == SignExtend(lhs, n)
      b == SignExtend(rhs, n)
      e == WrapSub(a, b)
  IN  e # SignExtend(SubSeq(e, 1, Len(lhs)), n)
MulOverflows(lhs, rhs) ==
  LET n == 2 * Len(lhs)
      a == SignExtend(lhs, n)
      b == SignExtend(rhs, n)
      e == WrapMul(a, b)
  IN  e # SignExtend(SubSeq(e, 1, Len(lhs)), n)

NonNeg(v) == ~IsNeg(v)

\* ADD: long res = rhs + lhs, then the two sign tests.  Signed overflow in
\* the addition is undefined behaviour: a build that wraps runs the tests on
\* the wrapped sum, a build that assumes no overflow drops them and pushes
\* the wrapped sum, a trapping build aborts.
AddChecked(lhs, rhs) ==
  LET res == WrapAdd(rhs, lhs)
  IN  IF IsNeg(res) /\ NonNeg(rhs) /\ NonNeg(lhs) THEN Throws("overflow error")
      ELSE IF NonNeg(res) /\ IsNeg(rhs) /\ IsNeg(lhs) THEN Throws("overflow error")
      ELSE Pushes(res)
AddOutcomes(lhs, rhs) ==
  IF AddOverflows(lhs, rhs)
  THEN {AddChecked(lhs, rhs), Pushes(WrapAdd(rhs, lhs)), Crashes}
  ELSE {AddChecked(lhs, rhs)}

\* SUB: long res = lhs - rhs, then the two sign tests; overflow as for ADD.
SubChecked(lhs, rhs) ==
  LET res == WrapSub(lhs, rhs)
      pos == NonNeg(res) /\ ~IsZero(res)
  IN  IF pos /\ NonNeg(rhs) /\ (IsNeg(lhs) \/ IsZero(lhs)) THEN Throws("overflow error")
      ELSE IF IsNeg(res) /\ IsNeg(rhs) /\ NonNeg(lhs) THEN Throws("overflow error")
      ELSE Pushes(res)
SubOutcomes(lhs, rhs) ==
  IF SubOverflows(lhs, rhs)
  THEN {SubChecked(lhs, rhs), Pushes(WrapSub(lhs, rhs)), Crashes}
  ELSE {SubChecked(lhs, rhs)}

\* MUL: long res = rhs * lhs, unchecked; overflow is undefined behaviour.
MulOutcomes(lhs, rhs) ==
  IF MulOverflows(lhs, rhs)
  THEN {Pushes(WrapMul(rhs, lhs)), Crashes}
  ELSE {Pushes(WrapMul(rhs, lhs))}

\* DIV and MOD: the zero test, then lhs / rhs or lhs % rhs.  The quotient of
\* INT64_MIN by -1 is not representable: the division is undefined
\* behaviour, which traps on x86-64 and wraps elsewhere.
DivOverflows(lhs, rhs) == lhs = INT64_MIN /\ rhs = I64Neg(1)
DivOutcomes(lhs, rhs) ==
  IF IsZero(rhs) THEN {Throws("division by 0")}
  ELSE IF DivOverflows(lhs, rhs) THEN {Pushes(TruncDiv(lhs, rhs)), Crashes}
  ELSE {Pushes(TruncDiv(lhs, rhs))}
ModOutcomes(lhs, rhs) ==
  IF IsZero(rhs) THEN {Throws("division by 0")}
  ELSE IF DivOverflows(lhs, rhs) THEN {Pushes(TruncMod(lhs, rhs)), Crashes}
  ELSE {Pushes(TruncMod(lhs, rhs))}

\* The comparisons: long res = rhs OP lhs.
Bool64(b) == IF b THEN I64(1) ELSE I64(0)
GreaterOutcomes(lhs, rhs) == {Pushes(Bool64(SLess(lhs, rhs)))}
LowerOutcomes(lhs, rhs) == {Pushes(Bool64(SLess(rhs, lhs)))}
GreaterEqOutcomes(lhs, rhs) == {Pushes(Bool64(~SLess(rhs, lhs)))}
LowerEqOutcomes(lhs, rhs) == {Pushes(Bool64(~SLess(lhs, rhs)))}
IsEqOutcomes(lhs, rhs) == {Pushes(Bool64(rhs = lhs))}

\* The outcomes of the binary opcode op on its operands.
OutcomesOf(op, lhs, rhs) ==
  CASE op = "ADD"        -> AddOutcomes(lhs, rhs)
    [] op = "SUB"        -> SubOutcomes(lhs, rhs)
    [] op = "MUL"        -> MulOutcomes(lhs, rhs)
    [] op = "DIV"        -> DivOutcomes(lhs, rhs)
    [] op = "MOD"        -> ModOutcomes(lhs, rhs)
    [] op = "GREATER"    -> GreaterOutcomes(lhs, rhs)
    [] op = "LOWER"      -> LowerOutcomes(lhs, rhs)
    [] op = "GREATER_EQ" -> GreaterEqOutcomes(lhs, rhs)
    [] op = "LOWER_EQ"   -> LowerEqOutcomes(lhs, rhs)
    [] op = "IS_EQ"      -> IsEqOutcomes(lhs, rhs)

\* auto rhs = PopInt(); auto lhs = PopInt(); then one of the outcomes.
BinaryOp(op) ==
  /\ Fetches(op)
  /\ pc' = pc + 1
  /\ IF Len(stack) < 1 THEN stack' = stack /\ Crash(op)
     ELSE IF Top(0).Kind # "INT" THEN stack' = Drop(1) /\ Throw(op, "type error")
     ELSE IF Len(stack) < 2 THEN stack' = Drop(1) /\ Crash(op)
     ELSE IF Top(1).Kind # "INT" THEN stack' = Drop(2) /\ Throw(op, "type error")
     ELSE \E o \in OutcomesOf(op, Top(1).Val, Top(0).Val) :
            CASE o.kind = "push"  -> stack' = Append(Drop(2), IntValue(o.val))
                                     /\ Continue(op)
              [] o.kind = "fault" -> stack' = Drop(2) /\ Throw(op, o.msg)
              [] o.kind = "crash" -> stack' = Drop(2) /\ Crash(op)
  /\ UNCHANGED <<sink, frames>> /\ Unchanged

ExecAdd == BinaryOp("ADD")
ExecSub == BinaryOp("SUB")
ExecMul == BinaryOp("MUL")
ExecDiv == BinaryOp("DIV")
ExecMod == BinaryOp("MOD")
ExecGreater == BinaryOp("GREATER")
ExecLower == BinaryOp("LOWER")
ExecGreaterEq == BinaryOp("GREATER_EQ")
ExecLowerEq == BinaryOp("LOWER_EQ")
ExecIsEq == BinaryOp("IS_EQ")

\* ------------------------------------------------------ control opcodes

\* RET: read depth and nargs, v = Pop(), drop depth values, pc_ = PopAddr(),
\* drop nargs values, Push(v).  A resize below zero wraps to a size no
\* vector can have.
ExecRet ==
  /\ Fetches("RET")
  /\ LET depth == FromBytes(ReadBytes(pc + 1, SizeofUnsigned))
         nargs == FromBytes(ReadBytes(pc + 1 + SizeofUnsigned, SizeofUnsigned))
         after == pc + 1 + SizeofUnsigned + SizeofUnsigned
     IN  IF Len(stack) < 1
         THEN pc' = after /\ stack' = stack /\ frames' = frames /\ Crash("RET")
         ELSE LET v  == Top(0)
                  s1 == Drop(1)
              IN  IF depth < 0 \/ depth > Len(s1)
                  THEN pc' = after /\ stack' = s1 /\ frames' = frames /\ Crash("RET")
                  ELSE LET s2 == SubSeq(s1, 1, Len(s1) - depth)
                       IN  IF Len(s2) < 1
                           THEN pc' = after /\ stack' = s2 /\ frames' = frames
                                /\ Crash("RET")
                           ELSE IF s2[Len(s2)].Kind # "ADDR"
                           THEN pc' = after /\ stack' = SubSeq(s2, 1, Len(s2) - 1)
                                /\ frames' = frames /\ Throw("RET", "type error")
                           ELSE LET addr == FromBytes(s2[Len(s2)].Val)
                                    s3   == SubSeq(s2, 1, Len(s2) - 1)
                                IN  /\ pc' = addr
                                    /\ frames' = SubSeq(frames, 1, Len(frames) - 1)
                                    /\ IF nargs < 0 \/ nargs > Len(s3)
                                       THEN stack' = s3 /\ Crash("RET")
                                       ELSE /\ stack' = Append(SubSeq(s3, 1, Len(s3) - nargs), v)
                                            /\ Continue("RET")
  /\ UNCHANGED sink /\ Unchanged

\* JUMP_FALSE: cond = Pop(); addr = Read<size_t>; if (!cond) pc_ = addr.
ExecJumpFalse ==
  /\ Fetches("JUMP_FALSE")
  /\ IF Len(stack) < 1
     THEN pc' = pc + 1 /\ stack' = stack /\ Crash("JUMP_FALSE")
     ELSE /\ stack' = Drop(1)
          /\ pc' = IF Truthy(Top(0)) THEN pc + 1 + SizeofSizeT
                   ELSE FromBytes(ReadBytes(pc + 1, SizeofSizeT))
          /\ Continue("JUMP_FALSE")
  /\ UNCHANGED <<sink, frames>> /\ Unchanged

ExecJump ==
  /\ Fetches("JUMP")
  /\ pc' = FromBytes(ReadBytes(pc + 1, SizeofSizeT))
  /\ stack' = stack
  /\ Continue("JUMP")
  /\ UNCHANGED <<sink, frames>> /\ Unchanged

\* STOP: Run returns.
ExecStop ==
  /\ Fetches("STOP")
  /\ pc' = pc + 1
  /\ status' = "stopped"
  /\ fault' = ""
  /\ last' = [off |-> pc, op |-> "STOP"]
  /\ UNCHANGED <<stack, sink, frames>> /\ Unchanged

\* Whether the opcode at pc_ and its immediates lie inside the buffer.
FetchInBounds ==
  /\ InBuffer(pc, SizeofOpcode)
  /\ prog[pc + 1] \in {Opcode[n] : n \in OpcodeNames}
       => InBuffer(pc + SizeofOpcode, ImmediateSize(OpcodeName(prog[pc + 1])))

\* Read<Opcode> or an immediate read beyond the end of the buffer: undefined.
ExecOutOfBounds ==
  /\ phase = "translated"
  /\ status = "running"
  /\ ~FetchInBounds
  /\ Crash("NONE")
  /\ UNCHANGED <<pc, stack, sink, frames>> /\ Unchanged

\* ---------------------------------------------------------------- modules

\* The modules the driver is run on.  Names are written as the parser reads
\* them; an integer literal is the uint64_t the lexer delivers.
Lit(v) == IntExpr(I64(v))
PrintIntProto == ProtoDecl("print_int", "print_int")
PrintCall(e) == TopStmt(ExprStmt(CallExpr(RefExpr("print_int"), <<e>>)))

\* func fact(n: int): int { if (n == 0) { return 1; } return n * fact(n - 1); }
\* print_int(fact(k))
FactDecl ==
  FuncDecl("fact", <<"n">>, BlockStmt(<<
    IfStmt(BinaryExpr("IS_EQ", RefExpr("n"), Lit(0)),
           BlockStmt(<<ReturnStmt(Lit(1))>>), Null),
    ReturnStmt(BinaryExpr("MUL", RefExpr("n"),
      CallExpr(RefExpr("fact"), <<BinaryExpr("SUB", RefExpr("n"), Lit(1))>>)))>>))
ModFact(k) == <<FactDecl, PrintIntProto, PrintCall(CallExpr(RefExpr("fact"), <<Lit(k)>>))>>

\* print_int(1 + 2)
ModPrintSum == <<PrintIntProto, PrintCall(BinaryExpr("ADD", Lit(1), Lit(2)))>>
\* print_int(10 - 3 * 2)
ModPrecedence ==
  <<PrintIntProto,
    PrintCall(BinaryExpr("SUB", Lit(10), BinaryExpr("MUL", Lit(3), Lit(2))))>>
\* print_int(10 / 0)
ModDivZero == <<PrintIntProto, PrintCall(BinaryExpr("DIV", Lit(10), Lit(0)))>>
\* print_int(9223372036854775807 + 1)
ModOverflow ==
  <<PrintIntProto, PrintCall(BinaryExpr("ADD", IntExpr(INT64_MAX), Lit(1)))>>
\* 1(2)
ModCallInt == <<TopStmt(ExprStmt(CallExpr(Lit(1), <<Lit(2)>>)))>>
\* func sub(a: int, b: int): int { return a - b }   print_int(sub(5, 3))   7
ModTwoArgs ==
  <<FuncDecl("sub", <<"a", "b">>,
      BlockStmt(<<ReturnStmt(BinaryExpr("SUB", RefExpr("a"), RefExpr("b")))>>)),
    PrintIntProto,
    PrintCall(CallExpr(RefExpr("sub"), <<Lit(5), Lit(3)>>)),
    TopStmt(ExprStmt(Lit(7)))>>
\* func g(a: int): int { let x: int = a + 1; { let y: int = x * 2; return y - a } }
\* func h(a: int): int { return g(a) + g(1) }        print_int(h(4))
ModLocals ==
  <<PrintIntProto,
    FuncDecl("g", <<"a">>, BlockStmt(<<
      LetStmt("x", BinaryExpr("ADD", RefExpr("a"), Lit(1))),
      BlockStmt(<<LetStmt("y", BinaryExpr("MUL", RefExpr("x"), Lit(2))),
                  ReturnStmt(BinaryExpr("SUB", RefExpr("y"), RefExpr("a")))>>)>>)),
    FuncDecl("h", <<"a">>, BlockStmt(<<
      ReturnStmt(BinaryExpr("ADD", CallExpr(RefExpr("g"), <<RefExpr("a")>>),
                                   CallExpr(RefExpr("g"), <<Lit(1)>>)))>>)),
    PrintCall(CallExpr(RefExpr("h"), <<Lit(4)>>))>>
\* if (c) { print_int(1) } else { print_int(2) }   while (0) { print_int(3) }
ModIfElse(c) ==
  <<PrintIntProto,
    TopStmt(IfStmt(Lit(c),
      BlockStmt(<<ExprStmt(CallExpr(RefExpr("print_int"), <<Lit(1)>>))>>),
      BlockStmt(<<ExprStmt(CallExpr(RefExpr("print_int"), <<Lit(2)>>))>>))),
    TopStmt(WhileStmt(Lit(0),
      BlockStmt(<<ExprStmt(CallExpr(RefExpr("print_int"), <<Lit(3)>>))>>)))>>
\* while (1) { 5 }
ModLoop == <<TopStmt(WhileStmt(Lit(1), BlockStmt(<<ExprStmt(Lit(5))>>)))>>
\* { if (c) let x: int = 1; 2 }
ModIfLet(c) ==
  <<TopStmt(BlockStmt(<<IfStmt(Lit(c), LetStmt("x", Lit(1)), Null),
                        ExprStmt(Lit(2))>>))>>
\* func f(n: int): int { if (n) let x: int = 1; return 7 }   print_int(f(c))
ModIfLetFunc(c) ==
  <<FuncDecl("f", <<"n">>, BlockStmt(<<
      IfStmt(RefExpr("n"), LetStmt("x", Lit(1)), Null),
      ReturnStmt(Lit(7))>>)),
    PrintIntProto,
    PrintCall(CallExpr(RefExpr("f"), <<Lit(c)>>))>>
\* { let g: int = one; let u: int = 2; while (u) let y: int = u - 1; return 0 }
\* func one(): int { return 1 }
ModReturnIntoFunc ==
  <<TopStmt(BlockStmt(<<
      LetStmt("g", RefExpr("one")),
      LetStmt("u", Lit(2)),
      WhileStmt(RefExpr("u"), LetStmt("y", BinaryExpr("SUB", RefExpr("u"), Lit(1)))),
      ReturnStmt(Lit(0))>>)),
    FuncDecl("one", <<>>, BlockStmt(<<ReturnStmt(Lit(1))>>))>>
\* return 1
ModTopReturn == <<TopStmt(ReturnStmt(Lit(1)))>>
\* func f(): int { }   f()
ModFallOff ==
  <<FuncDecl("f", <<>>, BlockStmt(<<>>)),
    TopStmt(ExprStmt(CallExpr(RefExpr("f"), <<>>)))>>
\* { let x: int }
ModLetNoInit == <<TopStmt(BlockStmt(<<LetStmt("x", Null)>>))>>
\* { let x: int = 1; let x: int = 2 }
ModLetTwice ==
  <<TopStmt(BlockStmt(<<LetStmt("x", Lit(1)), LetStmt("x", Lit(2))>>))>>
\* let x: int = 1   func f(): int { return 2 }   print_int(f())
ModTopLet ==
  <<TopStmt(LetStmt("x", Lit(1))),
    FuncDecl("f", <<>>, BlockStmt(<<ReturnStmt(Lit(2))>>)),
    PrintIntProto,
    PrintCall(CallExpr(RefExpr("f"), <<>>))>>
\* func id(a: int): int { return a }   print_int(id(3, 4))
ModArity ==
  <<FuncDecl("id", <<"a">>, BlockStmt(<<ReturnStmt(RefExpr("a"))>>)),
    PrintIntProto,
    PrintCall(CallExpr(RefExpr("id"), <<Lit(3), Lit(4)>>))>>
\* func f(n: int, k: int): int { if (n) let x: int = 9; return n + x }
\* print_int(f(c, 5))
ModIfLetArg(c) ==
  <<FuncDecl("f", <<"n", "k">>, BlockStmt(<<
      IfStmt(RefExpr("n"), LetStmt("x", Lit(9)), Null),
      ReturnStmt(BinaryExpr("ADD", RefExpr("n"), RefExpr("x")))>>)),
    PrintIntProto,
    PrintCall(CallExpr(RefExpr("f"), <<Lit(c), Lit(5)>>))>>

\* The largest argument of fact the model runs.
MaxFact == 5

Handwritten ==
  [k \in 1..(MaxFact + 1) |-> ModFact(k - 1)]
  \o <<ModPrintSum, ModPrecedence, ModDivZero, ModOverflow, ModCallInt,
       ModTwoArgs, ModLocals, ModIfElse(0), ModIfElse(1), ModLoop,
       ModIfLet(0), ModIfLet(1), ModIfLetFunc(0), ModIfLetFunc(1),
       ModReturnIntoFunc, ModTopReturn, ModFallOff, ModLetNoInit,
       ModLetTwice, ModIfLetArg(0), ModIfLetArg(1), ModTopLet, ModArity>>

\* a OP b in the only statement, for every operator and every pair of operands.
BinaryKinds ==
  <<"ADD", "SUB", "MUL", "DIV", "MOD",
    "GREATER", "LOWER", "GREATER_EQ", "LOWER_EQ", "IS_EQ">>
Operands ==
  <<INT64_MIN, WrapAdd(INT64_MIN, I64(1)), I64Neg(7), I64Neg(1), I64(0),
    I64(1), I64(7), WrapSub(INT64_MAX, I64(1)), INT64_MAX>>
\* ParseCompExpr names a comparison node after the token that follows its
\* right operand, so a node of another kind than IS_EQ only occurs as the
\* left operand of a further comparison: a > b > 1 is IS_EQ(GREATER(a, b), 1).
OrderKinds == {"GREATER", "LOWER", "GREATER_EQ", "LOWER_EQ"}
ModBinary(op, a, b) ==
  IF op \in OrderKinds
  THEN <<TopStmt(ExprStmt(BinaryExpr("IS_EQ", BinaryExpr(op, IntExpr(a), IntExpr(b)), Lit(1))))>>
  ELSE <<TopStmt(ExprStmt(BinaryExpr(op, IntExpr(a), IntExpr(b))))>>
BinaryFamily ==
  LET n == Len(Operands)
  IN  [i \in 1..(Len(BinaryKinds) * n * n) |->
         ModBinary(BinaryKinds[((i - 1) \div (n * n)) + 1],
                   Operands[(((i - 1) % (n * n)) \div n) + 1],
                   Operands[((i - 1) % n) + 1])]

Modules == Handwritten \o BinaryFamily

\* ----------------------------------------------------------------- driver

Init ==
  /\ m \in 1..Len(Modules)
  /\ tree = Null
  /\ phase = "parsed"
  /\ cg = NewCodegen
  /\ prog = <<>>
  /\ pc = 0
  /\ stack = <<>>
  /\ status = "idle"
  /\ fault = ""
  /\ sink = <<>>
  /\ frames = <<>>
  /\ heights = <<>>
  /\ last = [off |-> -1, op |-> "NONE"]

\* The driver translates the module with a fresh Codegen and hands the Program
\* (made from the moved code_ buffer) to a new Interp, whose Run starts at 0.
DriverTranslate ==
  /\ phase = "parsed"
  /\ LET t == Translate(cg, Modules[m])
     IN  IF t.abort # ""
         THEN /\ phase' = "aborted"
              /\ cg' = t
              /\ prog' = <<>>
              /\ status' = "idle"
         ELSE /\ phase' = "translated"
              /\ cg' = [t EXCEPT !.code = <<>>]
              /\ prog' = t.code
              /\ status' = "running"
  /\ pc' = 0
  /\ stack' = <<>>
  /\ heights' = IF \E i \in 1..Len(cg'.whiles) : cg'.whiles[i].entry = 0
                THEN [k \in {<<0, 0>>} |-> 0]
                ELSE <<>>
  /\ UNCHANGED <<m, tree, fault, sink, frames, last>>

Next ==
  \/ DriverTranslate
  \/ ExecPushFunc \/ ExecPushProto \/ ExecPushInt \/ ExecPeek \/ ExecPop
  \/ ExecCall
  \/ ExecAdd \/ ExecSub \/ ExecMul \/ ExecDiv \/ ExecMod
  \/ ExecGreater \/ ExecLower \/ ExecGreaterEq \/ ExecLowerEq \/ ExecIsEq
  \/ ExecRet \/ ExecJumpFalse \/ ExecJump \/ ExecStop
  \/ ExecOutOfBounds

Spec == Init /\ [][Next]_vars

\* ------------------------------------------------------- observations

\* The record of the opcode emitted at an offset.
OpsAt(off) ==
  LET S == {i \in 1..Len(cg.ops) : cg.ops[i].off = off}
  IN  IF S = {} THEN [off |-> off, op |-> "NONE", depth |-> -1]
      ELSE cg.ops[CHOOSE i \in S : TRUE]

\* The base of the current frame: the height of the stack with the saved pc
\* on it inside a function, the empty stack at top level.
FrameBase == IF frames = <<>> THEN 0 ELSE frames[Len(frames)].base
RuntimeDepth == Len(stack) - FrameBase

\* The layout record of the STOP and the offset where function bodies begin.
StopIndex == CHOOSE i \in 1..Len(cg.layout) : cg.layout[i].kind = "STOP"
FuncRegion == cg.layout[StopIndex].to

\* The items of a kind, as module indices.
ItemsOf(mod, kind) == {i \in 1..Len(mod) : mod[i].kind = kind}

\* Module shapes the claims speak of.
UniqueFuncNames(mod) ==
  \A i, j \in ItemsOf(mod, "FUNC") : mod[i].name = mod[j].name => i = j
NoFuncsNoProtos(mod) == \A i \in 1..Len(mod) : mod[i].kind = "STMT"
RECURSIVE LetsInitialised(_)
LetsInitialised(stmt) ==
  CASE stmt.kind = "BLOCK" -> \A i \in 1..Len(stmt.body) : LetsInitialised(stmt.body[i])
    [] stmt.kind = "WHILE" -> LetsInitialised(stmt.stmt)
    [] stmt.kind = "IF"    -> /\ LetsInitialised(stmt.stmt)
                              /\ stmt.elseStmt.kind # "NULL" => LetsInitialised(stmt.elseStmt)
    [] stmt.kind = "LET"   -> stmt.init.kind # "NULL"
    [] OTHER               -> TRUE
ModuleLetsInitialised(mod) ==
  /\ \A i \in ItemsOf(mod, "STMT") : LetsInitialised(mod[i].stmt)
  /\ \A i \in ItemsOf(mod, "FUNC") : LetsInitialised(mod[i].body)

\* The reference evaluator of a source expression built from literals and
\* binary operators: left operand, then right operand, result left OP right
\* over the mathematical integers, comparisons yielding 1 or 0.  It is
\* defined where the result is a signed 64-bit integer.
Defined(v) == [ok |-> TRUE, val |-> v]
Undefined == [ok |-> FALSE, val |-> <<>>]
RefApply(op, l, r) ==
  IF ~l.ok \/ ~r.ok THEN Undefined
  ELSE CASE op = "ADD" -> IF AddOverflows(l.val, r.val) THEN Undefined
                          ELSE Defined(WrapAdd(l.val, r.val))
         [] op = "SUB" -> IF SubOverflows(l.val, r.val) THEN Undefined
                          ELSE Defined(WrapSub(l.val, r.val))
         [] op = "MUL" -> IF MulOverflows(l.val, r.val) THEN Undefined
                          ELSE Defined(WrapMul(l.val, r.val))
         [] op = "DIV" -> IF IsZero(r.val) \/ DivOverflows(l.val, r.val) THEN Undefined
                          ELSE Defined(TruncDiv(l.val, r.val))
         [] op = "MOD" -> IF IsZero(r.val) \/ DivOverflows(l.val, r.val) THEN Undefined
                          ELSE Defined(TruncMod(l.val, r.val))
         [] op = "GREATER"    -> Defined(Bool64(SLess(r.val, l.val)))
         [] op = "LOWER"      -> Defined(Bool64(SLess(l.val, r.val)))
         [] op = "GREATER_EQ" -> Defined(Bool64(~SLess(l.val, r.val)))
         [] op = "LOWER_EQ"   -> Defined(Bool64(~SLess(r.val, l.val)))
         [] op = "IS_EQ"      -> Defined(Bool64(l.val = r.val))
RECURSIVE RefEval(_)
RefEval(expr) ==
  CASE expr.kind = "INT"    -> Defined(expr.n)
    [] expr.kind = "BINARY" -> RefApply(expr.op, RefEval(expr.lhs), RefEval(expr.rhs))
    [] OTHER                -> Undefined

\* A step of a binary opcode on two Int operands: lhs was pushed first.
BinaryStep(op) ==
  /\ Fetches(op)
  /\ Len(stack) >= 2
  /\ Top(0).Kind = "INT"
  /\ Top(1).Kind = "INT"
PushesInt(v) == status' = "running" /\ stack' = Append(Drop(2), IntValue(v))
Faults(msg) == status' = "fault" /\ fault' = msg /\ stack' = Drop(2)

\* ------------------------------------------------------------------ C1

\* The layout half of C1: the stream is the top-level statements in source
\* order, one STOP, the function bodies in source order, with nothing else.
C1_LayoutHolds ==
  phase = "translated" =>
    LET L == cg.layout
        n == Len(L)
        mod == Modules[m]
    IN  /\ Cardinality({i \in 1..n : L[i].kind = "STOP"}) = 1
        /\ \A i \in 1..n : /\ i < StopIndex => L[i].kind = "STMT"
                           /\ i > StopIndex => L[i].kind = "FUNC"
        /\ L[1].from = 0
        /\ L[n].to = Len(prog)
        /\ \A i \in 1..(n - 1) : L[i + 1].from = L[i].to
        /\ \A i, j \in 1..n : (i < j /\ L[i].kind = L[j].kind) => L[i].item < L[j].item
        /\ {L[i].item : i \in {j \in 1..n : L[j].kind = "STMT"}} = ItemsOf(mod, "STMT")
        /\ {L[i].item : i \in {j \in 1..n : L[j].kind = "FUNC"}} = ItemsOf(mod, "FUNC")
        /\ L[StopIndex].to = L[StopIndex].from + 1
        /\ prog[L[StopIndex].from + 1] = Opcode.STOP

\* A running step that takes pc_ from the top-level code into the function
\* bodies.
EntersFunctionBody ==
  /\ phase = "translated"
  /\ status = "running"
  /\ status' = "running"
  /\ pc < FuncRegion
  /\ pc' >= FuncRegion

\* C1: for every module the stream produced by Translate is the code of the
\* top-level statements in source order, then exactly one STOP, then the
\* function bodies in source order; and execution started at offset 0 does
\* not enter a function body before the STOP unless the step is a CALL.
C1_StopBeforeFunctions ==
  /\ []C1_LayoutHolds
  /\ [][EntersFunctionBody => last'.op = "CALL"]_vars

\* ------------------------------------------------------------------ C2

\* The 8-byte address immediate at a site of the translated program.
SiteWord(off) == ReadBytes(off, SizeofSizeT)

C3_StaticDepthIsRuntimeDepth ==
  (/\ phase = "translated"
   /\ status = "running"
   /\ last.op # "NONE"
   /\ ModuleLetsInitialised(Modules[m])) =>
    CASE last.op = "RET" ->
           OpsAt(pc - 1).op = "CALL" => RuntimeDepth = OpsAt(pc - 1).depth
      [] last.op = "CALL" ->
           pc = last.off + 1 => RuntimeDepth = OpsAt(last.off).depth
      [] OTHER -> RuntimeDepth = OpsAt(last.off).depth

\* ------------------------------------------------------------------ C4

\* The top-level expression statement whose POP is at pc_, if any.
AtPopOf(i) ==
  /\ cg.layout[i].kind = "STMT"
  /\ Modules[m][cg.layout[i].item].stmt.kind = "EXPR"
  /\ pc = cg.layout[i].to - 1

\* C4: for every module without functions and prototypes, right before the
\* POP of each top-level expression statement the top of the stack is the
\* integer the reference evaluator computes for the source expression.
C4_MatchesReferenceEvaluator ==
  (/\ phase = "translated"
   /\ status = "running"
   /\ NoFuncsNoProtos(Modules[m])) =>
    \A i \in 1..Len(cg.layout) :
      (AtPopOf(i) /\ RefEval(Modules[m][cg.layout[i].item].stmt.expr).ok) =>
        /\ Len(stack) >= 1
        /\ Top(0) = IntValue(RefEval(Modules[m][cg.layout[i].item].stmt.expr).val)

\* ------------------------------------------------------------------ C5

\* C5: a CALL of a function pushes the offset just past the CALL and sets
\* pc_ to the entry; the matching RET restores pc_ to that offset and leaves
\* the stack as it was before the call's arguments were pushed, with the
\* return value appended.  (Every call site of Modules passes as many
\* arguments as its callee declares.)
C5_CallRetFrame ==
  [][/\ (Fetches("CALL") /\ Len(stack) >= 1 /\ Top(0).Kind = "ADDR") =>
          /\ stack' = Append(Drop(1), AddrValue(ToBytes(pc + 1, SizeofSizeT)))
          /\ pc' = FromBytes(Top(0).Val)
     /\ (Fetches("RET") /\ frames # <<>>) =>
          LET f     == frames[Len(frames)]
              nargs == FromBytes(ReadBytes(pc + 1 + SizeofUnsigned, SizeofUnsigned))
          IN  /\ status' = "running"
              /\ pc' = f.site + 1
              /\ stack' = Append(SubSeq(f.below, 1, Len(f.below) - nargs), Top(0))
    ]_vars

\* ------------------------------------------------------------------ C6

\* C6: ADD and SUB raise "overflow error" exactly when the mathematical sum
\* or difference lies outside the signed 64-bit range, and push the exact
\* result for every other pair of operands.
C6_FaultExactlyOnOverflow ==
  [][/\ BinaryStep("ADD") =>
          IF AddOverflows(Top(1).Val, Top(0).Val) THEN Faults("overflow error")
          ELSE PushesInt(WrapAdd(Top(1).Val, Top(0).Val))
     /\ BinaryStep("SUB") =>
          IF SubOverflows(Top(1).Val, Top(0).Val) THEN Faults("overflow error")
          ELSE PushesInt(WrapSub(Top(1).Val, Top(0).Val))
    ]_vars

\* ------------------------------------------------------------------ C7

\* C7: DIV and MOD raise "division by 0" exactly when rhs is 0 and push
\* nothing then; for every other rhs they push the truncated quotient or the
\* remainder, which is a signed 64-bit integer for every pair of operands.
C7_DivModTotalOffZero ==
  [][/\ BinaryStep("DIV") =>
          IF IsZero(Top(0).Val) THEN Faults("division by 0")
          ELSE /\ ~DivOverflows(Top(1).Val, Top(0).Val)
               /\ PushesInt(TruncDiv(Top(1).Val, Top(0).Val))
     /\ BinaryStep("MOD") =>
          IF IsZero(Top(0).Val) THEN Faults("division by 0")
          ELSE PushesInt(TruncMod(Top(1).Val, Top(0).Val))
    ]_vars

\* ------------------------------------------------------------------ C8

\* C8: each comparison opcode pops rhs, then lhs, and pushes the Int 1 if
\* lhs OP rhs holds and the Int 0 otherwise.
C8_ComparesLhsWithRhs ==
  [][/\ BinaryStep("GREATER") => PushesInt(Bool64(SLess(Top(0).Val, Top(1).Val)))
     /\ BinaryStep("LOWER") => PushesInt(Bool64(SLess(Top(1).Val, Top(0).Val)))
     /\ BinaryStep("GREATER_EQ") => PushesInt(Bool64(~SLess(Top(1).Val, Top(0).Val)))
     /\ BinaryStep("LOWER_EQ") => PushesInt(Bool64(~SLess(Top(0).Val, Top(1).Val)))
     /\ BinaryStep("IS_EQ") => PushesInt(Bool64(Top(1).Val = Top(0).Val))
    ]_vars

\* ------------------------------------------------------------------ C9

\* C9: CALL pops exactly one callee value.  A Proto callee runs the host
\* primitive once (print_int emits its Int argument) and execution goes on
\* at the opcode after CALL; an Addr callee pushes the return address and
\* sets pc_ to the address; an Int callee raises "cannot call integer"
\* with nothing pushed and pc_ left just past the CALL.
C9_CallDispatch ==
  [][(Fetches("CALL") /\ Len(stack) >= 1) =>
       /\ Top(0).Kind = "PROTO" =>
            /\ pc' = pc + 1
            /\ (Len(stack) >= 2 /\ Top(1).Kind = "INT") =>
                 /\ status' = "running"
                 /\ sink' = Append(sink, Top(1).Val)
                 /\ Len(stack') = Len(stack) - 1
       /\ Top(0).Kind = "ADDR" =>
            /\ status' = "running"
            /\ stack' = Append(Drop(1), AddrValue(ToBytes(pc + 1, SizeofSizeT)))
            /\ pc' = FromBytes(Top(0).Val)
            /\ sink' = sink
       /\ Top(0).Kind = "INT" =>
            /\ status' = "fault"
            /\ fault' = "cannot call integer"
            /\ stack' = Drop(1)
            /\ pc' = pc + 1
            /\ sink' = sink
    ]_vars

\* A CALL on an Int callee has raised its fault.
C9_IntCalleeFaulted ==
  /\ status = "fault"
  /\ fault = "cannot call integer"
  /\ last.op = "CALL"
  /\ Modules[m] = ModCallInt

\* ----------------------------------------------------------------- C10

\* The modules that call print_int on an argument whose evaluation can fault.
ArgFaultModules == {ModDivZero, ModOverflow}

\* C10: once a runtime fault is raised no further opcode executes and no
\* host primitive runs; when the argument of a call faults, the primitive
\* called is never invoked.
C10_FaultEndsRun ==
  /\ []((status = "fault" /\ Modules[m] \in ArgFaultModules) => sink = <<>>)
  /\ [][status # "fault"]_vars

\* print_int(10 / 0) has raised "division by 0" while evaluating the argument.
C10_ArgumentFaulted ==
  /\ status = "fault"
  /\ fault = "division by 0"
  /\ last.op = "DIV"
  /\ Modules[m] = ModDivZero
  /\ sink = <<>>

\* ----------------------------------------------------------------- C11

\* The messages of the block-exit assertion, the function-exit assertion and
\* the depth_ > 0 assertion of the emitters.
DepthAssertions ==
  {"mismatched block depth on exit", "invalid stack depth on function exit",
   "no elements on stack"}

\* C11: while Translate lowers a module in which every let has an
\* initialiser, the block-exit assertion, the function-exit assertion and
\* the depth_ > 0 assertions of the emitters are never violated.
C11_DepthAssertionsHold ==
  ModuleLetsInitialised(Modules[m]) => cg.abort \notin DepthAssertions

\* ----------------------------------------------------------------- C12

\* Whether an offset of the translated program is the offset of an opcode.
IsOpcodeOffset(off) == \E i \in 1..Len(cg.ops) : cg.ops[i].off = off

\* The immediates codegen wrote after each opcode have the width the
\* interpreter reads for it: each opcode starts where the previous one and
\* its immediates end, and the last one ends the stream.
WidthsAgree ==
  LET n == Len(cg.ops)
  IN  /\ cg.ops[1].off = 0
      /\ \A i \in 1..(n - 1) :
            cg.ops[i + 1].off =
              cg.ops[i].off + SizeofOpcode + ImmediateSize(cg.ops[i].op)
      /\ Len(prog) = cg.ops[n].off + SizeofOpcode + ImmediateSize(cg.ops[n].op)

\* C12: in every program Translate produces the immediates of each opcode
\* have the width the interpreter consumes, every jump or call target is the
\* offset of an opcode, and at every fetch of Run pc_ is the offset of an
\* opcode.
C12_PcAtOpcode ==
  phase = "translated" =>
    /\ WidthsAgree
    /\ \A i \in 1..Len(cg.sites) :
          IsOpcodeOffset(FromBytes(SiteWord(cg.sites[i].off)))
    /\ status = "running" => IsOpcodeOffset(pc)

\* ----------------------------------------------------------------- C13

\* A second translation on the Codegen of the first one, whose code_ buffer
\* was moved into the Program: its label counter and tables are kept.
RetranslateReused ==
  /\ phase = "translated"
  /\ LET t == Translate(cg, Modules[m])
     IN  /\ t.abort = ""
         /\ cg' = [t EXCEPT !.code = <<>>]
         /\ prog' = t.code
  /\ phase' = "retranslated"
  /\ UNCHANGED <<m, tree, pc, stack, status, fault, sink, frames, heights, last>>

\* The driver translates the module it has just translated once more, on a
\* freshly constructed Codegen.
Retranslate ==
  /\ phase = "translated"
  /\ LET t == Translate(NewCodegen, Modules[m])
     IN  /\ t.abort = ""
         /\ cg' = [t EXCEPT !.code = <<>>]
         /\ prog' = t.code
  /\ phase' = "retranslated"
  /\ UNCHANGED <<m, tree, pc, stack, status, fault, sink, frames, heights, last>>

NextTwice == DriverTranslate \/ Retranslate
SpecTwice == Init /\ [][NextTwice]_vars

Run ==
  \/ ExecPushFunc \/ ExecPushProto \/ ExecPushInt \/ ExecPeek \/ ExecPop
  \/ ExecCall
  \/ ExecAdd \/ ExecSub \/ ExecMul \/ ExecDiv \/ ExecMod
  \/ ExecGreater \/ ExecLower \/ ExecGreaterEq \/ ExecLowerEq \/ ExecIsEq
  \/ ExecRet \/ ExecJumpFalse \/ ExecJump \/ ExecStop
  \/ ExecOutOfBounds

\* The fetch loop does not pause: while an iteration is possible, one is
\* taken.
SpecLive == Init /\ [][Next]_vars /\ WF_vars(Run)

RECURSIVE Factorial(_)
Factorial(k) == IF k = 0 THEN 1 ELSE k * Factorial(k - 1)

\* The argument k when the module is the factorial program for k.
IsFact(k) == Modules[m] = ModFact(k)

\* What the sink and the frames of the factorial program for k may hold.
FactSink(k) ==
  /\ sink \in {<<>>, <<I64(Factorial(k))>>}
  /\ status = "stopped" => sink = <<I64(Factorial(k))>>
  /\ sink # <<>> => frames = <<>>
  /\ status \in {"idle", "running", "stopped"}

\* C14: the program `func fact(n) { if (n == 0) { return 1; } return
\* n * fact(n - 1); } print_int(fact(k));` makes the sink emit exactly one
\* value, k!, and then reaches STOP, for every k the model runs (0..MaxFact).
C14_FactPrintsFactorial ==
  /\ [](\A k \in 0..MaxFact : IsFact(k) => FactSink(k))
  /\ (phase = "translated" /\ \E k \in 0..MaxFact : IsFact(k))
       ~> (status = "stopped")

\* fact(5) has printed 120 and the run has reached STOP.
C14_Fact5Prints120 ==
  /\ IsFact(5)
  /\ status = "stopped"
  /\ sink = <<I64(120)>>
  /\ stack = <<>>

\* ----------------------------------------------------------------- C15

\* The names a module declares as prototypes.
ProtoNames(mod) == {mod[i].name : i \in ItemsOf(mod, "PROTO")}

\* An expression in which every call is of a prototype or of a literal.
RECURSIVE CallsNoFunction(_, _)
CallsNoFunction(expr, protos) ==
  CASE expr.kind = "BINARY" -> /\ CallsNoFunction(expr.lhs, protos)
                               /\ CallsNoFunction(expr.rhs, protos)
    [] expr.kind = "CALL"   ->
         /\ \/ expr.callee.kind = "INT"
            \/ expr.callee.kind = "REF" /\ expr.callee.name \in protos
         /\ \A i \in 1..Len(expr.args) : CallsNoFunction(expr.args[i], protos)
    [] OTHER                -> TRUE

\* A statement without while and without a call of a user-defined function.
RECURSIVE NoWhileNoFunctionCall(_, _)
NoWhileNoFunctionCall(stmt, protos) ==
  CASE stmt.kind = "BLOCK"  ->
         \A i \in 1..Len(stmt.body) : NoWhileNoFunctionCall(stmt.body[i], protos)
    [] stmt.kind = "WHILE"  -> FALSE
    [] stmt.kind = "IF"     -> /\ CallsNoFunction(stmt.cond, protos)
                               /\ NoWhileNoFunctionCall(stmt.stmt, protos)
                               /\ NoWhileNoFunctionCall(stmt.elseStmt, protos)
    [] stmt.kind = "EXPR"   -> CallsNoFunction(stmt.expr, protos)
    [] stmt.kind = "RETURN" -> CallsNoFunction(stmt.expr, protos)
    [] stmt.kind = "LET"    -> CallsNoFunction(stmt.init, protos)
    [] OTHER                -> TRUE
ModuleNoWhileNoFunctionCall(mod) ==
  /\ \A i \in ItemsOf(mod, "STMT") :
        NoWhileNoFunctionCall(mod[i].stmt, ProtoNames(mod))
  /\ \A i \in ItemsOf(mod, "FUNC") :
        NoWhileNoFunctionCall(mod[i].body, ProtoNames(mod))

\* C15: Run returns only when it fetches STOP or a fault is raised, and on a
\* module without while and without calls of user-defined functions Run
\* eventually fetches STOP or raises a fault, with pc_ inside the program
\* buffer at every fetch.
C15_RunEndsAtStopOrFault ==
  /\ [][status' = "stopped" => (status = "stopped" \/ Fetches("STOP"))]_vars
  /\ []((/\ phase = "translated"
         /\ status = "running"
         /\ ModuleNoWhileNoFunctionCall(Modules[m])) => InBuffer(pc, SizeofOpcode))
  /\ (phase = "translated" /\ ModuleNoWhileNoFunctionCall(Modules[m]))
       ~> (status \in {"stopped", "fault"})

\* ----------------------------------------------------------------- C16

\* Tokens, as the lexer hands them to the parser.
Tok(kind) == [kind |-> kind]
IntTok(n) == [kind |-> "INT", n |-> I64(n)]
IdentTok(name) == [kind |-> "IDENT", name |-> name]

\* Parser::Current on the token sequence toks at position pos; END past it.
Current(toks, pos) == IF pos <= Len(toks) THEN toks[pos] ELSE Tok("END")

\* What a Parse function leaves: the expression and the position of the
\* current token, or a ParserError.
Parsed(expr, pos) == [err |-> FALSE, expr |-> expr, pos |-> pos]
ParserError(pos) == [err |-> TRUE, expr |-> Null, pos |-> pos]

ParseTermExpr(toks, pos) ==
  CASE Current(toks, pos).kind = "IDENT" ->
         Parsed(RefExpr(Current(toks, pos).name), pos + 1)
    [] Current(toks, pos).kind = "INT" ->
         Parsed(IntExpr(Current(toks, pos).n), pos + 1)
    [] OTHER -> ParserError(pos)

CompKinds == {"GREATER", "LOWER", "GREATER_EQ", "LOWER_EQ", "IS_EQ"}
AddSubKinds == {"PLUS", "MINUS"}
MulDivModKinds == {"MUL", "DIV", "MOD"}

\* make_shared<BinaryExpr>(kind, term, rhs) once rhs has been parsed.
MakeBinary(kind, term, rhs) ==
  IF rhs.err THEN rhs
  ELSE Parsed(BinaryExpr(kind, term.expr, rhs.expr), rhs.pos)
\* ParseCompExpr tests Current() after it has parsed rhs.
MakeComp(toks, term, rhs) ==
  IF rhs.err THEN rhs
  ELSE Parsed(BinaryExpr(IF Current(toks, rhs.pos).kind \in OrderKinds
                         THEN Current(toks, rhs.pos).kind
                         ELSE "IS_EQ",
                         term.expr, rhs.expr), rhs.pos)
\* Check(RPAREN), Next, make_shared<CallExpr>(callee, args).
MakeCall(toks, callee, args) ==
  IF args.err THEN ParserError(args.pos)
  ELSE IF Current(toks, args.pos).kind # "RPAREN" THEN ParserError(args.pos)
  ELSE Parsed(CallExpr(callee.expr, args.args), args.pos + 1)
ArgsDone(args, pos) == [err |-> FALSE, args |-> args, pos |-> pos]
ArgsError(pos) == [err |-> TRUE, args |-> <<>>, pos |-> pos]

RECURSIVE ParseExpr(_, _)
RECURSIVE ParseCompExpr(_, _)
RECURSIVE ParseAddSubExpr(_, _)
RECURSIVE ParseMulDivModExpr(_, _)
RECURSIVE ParseCallExpr(_, _)
RECURSIVE CompLoop(_, _)
RECURSIVE AddSubLoop(_, _)
RECURSIVE MulDivModLoop(_, _)
RECURSIVE CallLoop(_, _)
RECURSIVE ArgsLoop(_, _, _)
RECURSIVE ArgsNext(_, _, _)

\* The inner while of ParseCallExpr: pos is the token lexer_.Next() leaves.
ArgsNext(toks, args, arg) ==
  IF arg.err THEN ArgsError(arg.pos)
  ELSE IF Current(toks, arg.pos).kind = "COMMA"
  THEN ArgsLoop(toks, arg.pos, Append(args, arg.expr))
  ELSE ArgsDone(Append(args, arg.expr), arg.pos)
ArgsLoop(toks, pos, args) ==
  IF Current(toks, pos + 1).kind = "RPAREN" THEN ArgsDone(args, pos + 1)
  ELSE ArgsNext(toks, args, ParseExpr(toks, pos + 1))
CallLoop(toks, callee) ==
  IF callee.err THEN callee
  ELSE IF Current(toks, callee.pos).kind = "LPAREN"
  THEN CallLoop(toks, MakeCall(toks, callee, ArgsLoop(toks, callee.pos, <<>>)))
  ELSE callee
ParseCallExpr(toks, pos) == CallLoop(toks, ParseTermExpr(toks, pos))

MulDivModLoop(toks, term) ==
  IF term.err THEN term
  ELSE IF Current(toks, term.pos).kind \in MulDivModKinds
  THEN MulDivModLoop(toks, MakeBinary(Current(toks, term.pos).kind, term,
                                      ParseCallExpr(toks, term.pos + 1)))
  ELSE term
ParseMulDivModExpr(toks, pos) == MulDivModLoop(toks, ParseCallExpr(toks, pos))

AddSubLoop(toks, term) ==
  IF term.err THEN term
  ELSE IF Current(toks, term.pos).kind \in AddSubKinds
  THEN AddSubLoop(toks, MakeBinary(IF Current(toks, term.pos).kind = "PLUS"
                                   THEN "ADD" ELSE "SUB", term,
                                   ParseMulDivModExpr(toks, term.pos + 1)))
  ELSE term
ParseAddSubExpr(toks, pos) == AddSubLoop(toks, ParseMulDivModExpr(toks, pos))

CompLoop(toks, term) ==
  IF term.err THEN term
  ELSE IF Current(toks, term.pos).kind \in CompKinds
  THEN CompLoop(toks, MakeComp(toks, term, ParseAddSubExpr(toks, term.pos + 1)))
  ELSE term
ParseCompExpr(toks, pos) == CompLoop(toks, ParseAddSubExpr(toks, pos))

ParseExpr(toks, pos) == ParseCompExpr(toks, pos)

\* The token sequences parsed: 1 OP1 2 OP2 3 for every pair of binary
\* operators, and some with calls.
OperatorTokens ==
  <<"PLUS", "MINUS", "MUL", "DIV", "MOD",
    "GREATER", "LOWER", "GREATER_EQ", "LOWER_EQ", "IS_EQ">>
ThreeOperands(op1, op2) == <<IntTok(1), Tok(op1), IntTok(2), Tok(op2), IntTok(3)>>
OperatorPairs ==
  LET n == Len(OperatorTokens)
  IN  [i \in 1..(n * n) |->
         ThreeOperands(OperatorTokens[((i - 1) \div n) + 1],
                       OperatorTokens[((i - 1) % n) + 1])]
\* 10 - 3 * 2
SrcPrecedence == <<IntTok(10), Tok("MINUS"), IntTok(3), Tok("MUL"), IntTok(2)>>
\* 2 * f(1, 3 + 4)(5) - 6
SrcCall ==
  <<IntTok(2), Tok("MUL"), IdentTok("f"), Tok("LPAREN"), IntTok(1), Tok("COMMA"),
    IntTok(3), Tok("PLUS"), IntTok(4), Tok("RPAREN"), Tok("LPAREN"), IntTok(5),
    Tok("RPAREN"), Tok("MINUS"), IntTok(6)>>
\* 1 + * 2
SrcNoTerm == <<IntTok(1), Tok("PLUS"), Tok("MUL"), IntTok(2)>>
\* f(1
SrcNoParen == <<IdentTok("f"), Tok("LPAREN"), IntTok(1)>>
\* 1 OP 2 for every comparison operator, with nothing after it.
TwoOperands(op) == <<IntTok(1), Tok(op), IntTok(2)>>
Comparisons ==
  <<TwoOperands("GREATER"), TwoOperands("LOWER"), TwoOperands("GREATER_EQ"),
    TwoOperands("LOWER_EQ"), TwoOperands("IS_EQ")>>
Sources ==
  <<SrcPrecedence, SrcCall, SrcNoTerm, SrcNoParen>> \o OperatorPairs \o Comparisons

\* The parser alone: ParseStmt on a token sequence that starts an expression.
InitParse ==
  /\ m \in 1..Len(Sources)
  /\ tree = Null
  /\ phase = "lexed"
  /\ cg = NewCodegen
  /\ prog = <<>>
  /\ pc = 0
  /\ stack = <<>>
  /\ status = "idle"
  /\ fault = ""
  /\ sink = <<>>
  /\ frames = <<>>
  /\ heights = <<>>
  /\ last = [off |-> -1, op |-> "NONE"]
DriverParse ==
  /\ phase = "lexed"
  /\ tree' = ParseExpr(Sources[m], 1).expr
  /\ phase' = IF ParseExpr(Sources[m], 1).err THEN "syntax error" ELSE "expression"
  /\ UNCHANGED <<m, cg, prog, pc, stack, status, fault, sink, frames, heights, last>>
NextParse == DriverParse
SpecParse == InitParse /\ [][NextParse]_vars

\* The operator a token denotes and the level it binds at.
BinaryKindOf(tk) ==
  CASE tk = "PLUS" -> "ADD" [] tk = "MINUS" -> "SUB" [] OTHER -> tk
LevelOf(tk) ==
  IF tk \in CompKinds THEN 1 ELSE IF tk \in AddSubKinds THEN 2 ELSE 3
IsThreeOperands(toks) ==
  /\ Len(toks) = 5
  /\ \A i \in {1, 3, 5} : toks[i].kind = "INT"
  /\ \A i \in {2, 4} : toks[i].kind \in CompKinds \cup AddSubKinds \cup MulDivModKinds
\* (a OP1 b) OP2 c unless OP2 binds tighter than OP1, then a OP1 (b OP2 c).
TreeOf(toks) ==
  IF LevelOf(toks[2].kind) >= LevelOf(toks[4].kind)
  THEN BinaryExpr(BinaryKindOf(toks[4].kind),
                  BinaryExpr(BinaryKindOf(toks[2].kind), IntExpr(toks[1].n), IntExpr(toks[3].n)),
                  IntExpr(toks[5].n))
  ELSE BinaryExpr(BinaryKindOf(toks[2].kind),
                  IntExpr(toks[1].n),
                  BinaryExpr(BinaryKindOf(toks[4].kind), IntExpr(toks[3].n), IntExpr(toks[5].n)))

\* C16: a OP1 b OP2 c parses to (a OP1 b) OP2 c when both operators are of
\* the same level and when OP1 binds tighter, and to a OP1 (b OP2 c) when
\* OP2 binds tighter; calls bind tighter than every binary operator.
C16_PrecedenceAndAssociativity ==
  /\ (phase # "lexed" /\ IsThreeOperands(Sources[m])) =>
       /\ phase = "expression"
       /\ tree = TreeOf(Sources[m])
  /\ (phase # "lexed" /\ Sources[m] = SrcCall) =>
       tree = BinaryExpr("SUB",
                BinaryExpr("MUL", Lit(2),
                  CallExpr(CallExpr(RefExpr("f"),
                                    <<Lit(1), BinaryExpr("ADD", Lit(3), Lit(4))>>),
                           <<Lit(5)>>)),
                Lit(6))

\* ----------------------------------------------------------------- C17

\* The emitters alone: a Codegen that mints labels, emits opcodes, emits
\* address immediates for labels and binds labels, in any order.  A label is
\* bound once per FuncDecl that carries its name and once per if/while.
MaxLabels == 2
MaxCode == 18

InitEmit ==
  /\ m = 1
  /\ tree = Null
  /\ phase = "emitting"
  /\ cg = NewCodegen
  /\ prog = <<>>
  /\ pc = 0
  /\ stack = <<>>
  /\ status = "idle"
  /\ fault = ""
  /\ sink = <<>>
  /\ frames = <<>>
  /\ heights = <<>>
  /\ last = [off |-> -1, op |-> "NONE"]
EmitterUnchanged ==
  UNCHANGED <<m, tree, phase, prog, pc, stack, status, fault, sink, frames, heights, last>>

DoMakeLabel ==
  /\ phase = "emitting"
  /\ cg.nextLabel < MaxLabels
  /\ cg' = MakeLabel(cg)
  /\ EmitterUnchanged
DoEmitOpcode ==
  /\ phase = "emitting"
  /\ Len(cg.code) + SizeofOpcode <= MaxCode
  /\ cg' = EmitOpcode(cg, "JUMP")
  /\ EmitterUnchanged
DoEmitFixup(label) ==
  /\ phase = "emitting"
  /\ Len(cg.code) + SizeofSizeT <= MaxCode
  /\ cg' = EmitFixup(cg, label)
  /\ EmitterUnchanged
DoEmitLabel(label) ==
  /\ phase = "emitting"
  /\ cg' = EmitLabel(cg, label)
  /\ EmitterUnchanged
EmitFixupAny == \E label \in 1..cg.nextLabel : DoEmitFixup(label)
EmitLabelAny == \E label \in 1..cg.nextLabel : DoEmitLabel(label)
NextEmit == DoMakeLabel \/ DoEmitOpcode \/ EmitFixupAny \/ EmitLabelAny
SpecEmit == InitEmit /\ [][NextEmit]_vars

\* The sites of a label that hold a placeholder: recorded by EmitFixup and
\* not yet overwritten by EmitLabel.
PendingSites(label) ==
  IF label \in DOMAIN cg.labelToAddress THEN {}
  ELSE {FixupsOf(cg, label)[i] : i \in 1..Len(FixupsOf(cg, label))}
InSite(i, sites) == \E loc \in sites : i > loc /\ i <= loc + SizeofSizeT

FixupBeforeLabel(label) ==
  (DoEmitFixup(label) /\ label \notin DOMAIN cg.labelToAddress) =>
    /\ cg'.code = cg.code \o ToBytes(0, SizeofSizeT)
    /\ cg'.fixups[label] = Append(FixupsOf(cg, label), Len(cg.code))
    /\ label \notin DOMAIN cg'.labelToAddress
LabelBinds(label) ==
  DoEmitLabel(label) =>
    /\ label \in DOMAIN cg'.labelToAddress
    /\ cg'.labelToAddress[label] = Len(cg.code)
    /\ Len(cg'.code) = Len(cg.code)
    /\ \A loc \in PendingSites(label) :
         SubSeq(cg'.code, loc + 1, loc + SizeofSizeT) = ToBytes(Len(cg.code), SizeofSizeT)
    /\ \A i \in 1..Len(cg.code) :
         ~InSite(i, PendingSites(label)) => cg'.code[i] = cg.code[i]
FixupAfterLabel(label) ==
  (DoEmitFixup(label) /\ label \in DOMAIN cg.labelToAddress) =>
    /\ cg'.code = cg.code \o ToBytes(cg.labelToAddress[label], SizeofSizeT)
    /\ cg'.fixups = cg.fixups
    /\ cg'.labelToAddress = cg.labelToAddress

\* C17: EmitFixup(L) before EmitLabel(L) writes a placeholder and records its
\* offset as a pending site of L; EmitLabel(L) overwrites every pending site
\* of L with the current offset, records that offset as the address of L and
\* changes no other byte; EmitFixup(L) after EmitLabel(L) writes the recorded
\* address and records no site.
C17_FixupProtocol ==
  [][\A label \in 1..MaxLabels :
       /\ FixupBeforeLabel(label)
       /\ LabelBinds(label)
       /\ FixupAfterLabel(label)]_vars

\* ----------------------------------------------------------------- C18

\* Values of size_t that code_.size() can take, low word first: addresses
\* below 2^32 and above.
AddressWords == <<0, 1, 12, 255, 256, 65535, 65536, 16777216>>
Addresses ==
  LET n == Len(AddressWords)
  IN  [i \in 1..(n * n) |->
         ToBytes(AddressWords[((i - 1) % n) + 1], SizeofUnsigned)
         \o ToBytes(AddressWords[((i - 1) \div n) + 1], SizeofUnsigned)]

\* One PUSH_FUNC whose operand is the address of a label bound at
\* Addresses[m], written by EmitFixup and EmitLabel and decoded by Run.
InitAddress ==
  /\ m \in 1..Len(Addresses)
  /\ tree = Null
  /\ phase = "emitting"
  /\ cg = NewCodegen
  /\ prog = <<Opcode.PUSH_FUNC>>
  /\ pc = 0
  /\ stack = <<>>
  /\ status = "idle"
  /\ fault = ""
  /\ sink = <<>>
  /\ frames = <<>>
  /\ heights = <<>>
  /\ last = [off |-> -1, op |-> "NONE"]
AddressUnchanged == UNCHANGED <<m, tree, cg, pc, stack, fault, sink, frames, heights, last>>
\* EmitFixup before the label is bound: Emit<size_t>(0).
FixupPlaceholder ==
  /\ phase = "emitting"
  /\ prog' = prog \o ToBytes(0, SizeofSizeT)
  /\ phase' = "pending"
  /\ status' = "idle"
  /\ AddressUnchanged
\* EmitFixup after the label is bound: Emit<size_t>(it->second).
FixupKnown ==
  /\ phase = "emitting"
  /\ prog' = prog \o Addresses[m]
  /\ phase' = "translated"
  /\ status' = "running"
  /\ AddressUnchanged
\* EmitLabel with code_.size() = Addresses[m]: the memcpy over the site.
LabelPatches ==
  /\ phase = "pending"
  /\ prog' = PatchAll(prog, <<SizeofOpcode>>, Addresses[m], 1)
  /\ phase' = "translated"
  /\ status' = "running"
  /\ AddressUnchanged
NextAddress == FixupPlaceholder \/ FixupKnown \/ LabelPatches \/ ExecPushFunc
SpecAddress == InitAddress /\ [][NextAddress]_vars

\* C18: the placeholder, the known address, the patch and the interpreter's
\* decode cover the same bytes, so the site holds the label's address over
\* the width the interpreter reads and the value decoded is that address,
\* for every address of the address type.
C18_DecodedIsLabelAddress ==
  /\ phase \in {"pending", "translated"} =>
       Len(prog) = SizeofOpcode + ImmediateSize("PUSH_FUNC")
  /\ phase = "translated" =>
       /\ \A op \in {"PUSH_FUNC", "JUMP", "JUMP_FALSE"} :
            ReadBytes(SizeofOpcode, ImmediateSize(op)) = Addresses[m]
       /\ last.op = "PUSH_FUNC" => stack = <<AddrValue(Addresses[m])>>

\* ----------------------------------------------------------------- C19

\* A PEEK about to execute inside the body of a called function.
PeekInFunction ==
  /\ Fetches("PEEK")
  /\ frames # <<>>
  /\ pc >= FuncRegion
\* Its operand, and depth_ when LowerRefExpr computed the operand.
PeekIndex == FromBytes(ReadBytes(pc + 1, SizeofUnsigned))
PeekDepth == OpsAt(pc).depth - 1
\* The i-th argument the caller of the current frame passed.
PassedArg(i) == frames[Len(frames)].below[Len(frames[Len(frames)].below) - i]
\* The slot the initialiser of the local with depth snapshot d was pushed to.
LocalSlot(d) == stack[FrameBase + d]

\* C19: inside a function body a PEEK emitted for argument i copies the i-th
\* argument the caller passed, a PEEK emitted for an initialised local copies
\* the value its initialiser pushed, and the index is below the stack size.
C19_PeekCopiesBinding ==
  [][PeekInFunction =>
       /\ PeekIndex >= 0
       /\ PeekIndex < Len(stack)
       /\ PeekIndex > PeekDepth =>
            /\ PeekIndex - PeekDepth - 1 < Len(frames[Len(frames)].below)
            /\ stack' = Append(stack, PassedArg(PeekIndex - PeekDepth - 1))
       /\ PeekIndex < PeekDepth =>
            stack' = Append(stack, LocalSlot(PeekDepth - PeekIndex))]_vars

\* ----------------------------------------------------------------- C20

\* The call a top-level expression statement starts with: the statement's
\* expression, or the call that is the only argument of it.
FirstCall(expr) ==
  IF expr.kind = "CALL" /\ Len(expr.args) = 1 /\ expr.args[1].kind = "CALL"
  THEN expr.args[1]
  ELSE expr
\* A call whose arguments are literals: the order they are pushed in shows.
LiteralCall(expr) ==
  /\ expr.kind = "CALL"
  /\ \A j \in 1..Len(expr.args) : expr.args[j].kind = "INT"
\* The top-level statements (as layout records) that start with such a call.
StartsWithLiteralCall(i) ==
  /\ cg.layout[i].kind = "STMT"
  /\ Modules[m][cg.layout[i].item].stmt.kind = "EXPR"
  /\ LiteralCall(FirstCall(Modules[m][cg.layout[i].item].stmt.expr))
CallOf(i) == FirstCall(Modules[m][cg.layout[i].item].stmt.expr)
\* Every push of an argument or a callee takes an opcode and 8 bytes.
PushSize == SizeofOpcode + SizeofSizeT
ArgOffset(i, j) == cg.layout[i].from + (Len(CallOf(i).args) - j) * PushSize
CalleeOffset(i) == cg.layout[i].from + Len(CallOf(i).args) * PushSize
CallOffset(i) == CalleeOffset(i) + PushSize

\* C20: the code of a call pushes a_{n-1} first and a_0 last, then the
\* callee, then CALL; at the CALL the callee is on top, a_0 beneath it and
\* a_{n-1} deepest, and depth_ after the call is one more than before the
\* first argument.
C20_CallOrder ==
  phase = "translated" =>
    \A i \in 1..Len(cg.layout) :
      StartsWithLiteralCall(i) =>
        /\ \A j \in 1..Len(CallOf(i).args) :
             /\ OpsAt(ArgOffset(i, j)).op = "PUSH_INT"
             /\ ReadBytes(ArgOffset(i, j) + SizeofOpcode, SizeofSizeT) = CallOf(i).args[j].n
        /\ OpsAt(CalleeOffset(i)).op \in {"PUSH_FUNC", "PUSH_PROTO", "PUSH_INT"}
        /\ OpsAt(CallOffset(i)).op = "CALL"
        /\ OpsAt(CallOffset(i)).depth = OpsAt(cg.layout[i].from).depth
        /\ (status = "running" /\ pc = CallOffset(i)) =>
             /\ Len(stack) >= Len(CallOf(i).args) + 1
             /\ last = [off |-> CalleeOffset(i), op |-> OpsAt(CalleeOffset(i)).op]
             /\ \A j \in 1..Len(CallOf(i).args) :
                  Top(j) = IntValue(CallOf(i).args[j].n)

\* sub(5, 3) about to be called: the address of sub on top, 5, then 3.
C20_AtCallOfTwoArgs ==
  /\ Modules[m] = ModTwoArgs
  /\ phase = "translated"
  /\ status = "running"
  /\ \E i \in 1..Len(cg.layout) :
       /\ StartsWithLiteralCall(i)
       /\ pc = CallOffset(i)
       /\ OpsAt(pc).op = "CALL"
       /\ OpsAt(pc).depth = 1
  /\ Len(stack) = 3
  /\ Top(0).Kind = "ADDR"
  /\ Top(1) = IntValue(I64(5))
  /\ Top(2) = IntValue(I64(3))

\* ----------------------------------------------------------------- C21

\* The JUMP_FALSE of a while about to execute: the one between its labels
\* that targets its exit label.
AtWhileTest(w) ==
  /\ Fetches("JUMP_FALSE")
  /\ Len(stack) >= 1
  /\ pc > w.entry
  /\ pc < w.exit
  /\ FromBytes(ReadBytes(pc + SizeofOpcode, SizeofSizeT)) = w.exit
\* The JUMP that ends the body of a while about to execute.
AtWhileJump(w) ==
  /\ Fetches("JUMP")
  /\ pc = w.exit - JumpSize
\* The stack is as high as when the while running in this frame was entered.
HeightAsEntered(w) ==
  <<Len(frames), w.entry>> \in DOMAIN heights =>
    Len(stack') = heights[<<Len(frames), w.entry>>]

\* C21: the JUMP_FALSE of a while continues with the body exactly when the
\* condition is truthy and goes to the exit label otherwise, the body is
\* followed by a jump to the entry label, and the stack is as high at every
\* arrival at the entry label and at the exit label as at the first arrival
\* at the entry label.
C21_WhileLoop ==
  [][\A i \in 1..Len(cg.whiles) :
       /\ AtWhileTest(cg.whiles[i]) =>
            /\ pc' = IF Truthy(Top(0)) THEN pc + JumpSize ELSE cg.whiles[i].exit
            /\ ~Truthy(Top(0)) => HeightAsEntered(cg.whiles[i])
       /\ AtWhileJump(cg.whiles[i]) =>
            /\ pc' = cg.whiles[i].entry
            /\ HeightAsEntered(cg.whiles[i])]_vars

\* ----------------------------------------------------------------- C22

\* Every function body is a block whose last statement is a return.
EndsWithReturn(body) ==
  /\ body.kind = "BLOCK"
  /\ Len(body.body) > 0
  /\ body.body[Len(body.body)].kind = "RETURN"
BodiesEndWithReturn(mod) ==
  \A i \in ItemsOf(mod, "FUNC") : EndsWithReturn(mod[i].body)

\* The layout records of the function bodies and the one an offset lies in.
FuncRecords == {i \in 1..Len(cg.layout) : cg.layout[i].kind = "FUNC"}
InFunc(i, off) == off >= cg.layout[i].from /\ off < cg.layout[i].to
\* A POP with nothing but POPs up to the end of its function: one of those
\* LowerBlockStmt emits at the exit of the body.
TrailingPop(i, off) ==
  /\ InFunc(i, off)
  /\ \A k \in 1..Len(cg.ops) :
       (cg.ops[k].off >= off /\ cg.ops[k].off < cg.layout[i].to) => cg.ops[k].op = "POP"

\* C22: when every function body ends with a return, a step brings control
\* into the code of a function only as a CALL of its entry address (or as
\* the RET that resumes a caller), control never passes the end of the
\* buffer, and the POPs after the trailing return are never executed.
C22_EnteredOnlyByCall ==
  [][(phase = "translated" /\ status = "running" /\ status' = "running"
        /\ BodiesEndWithReturn(Modules[m])) =>
       /\ pc' < Len(prog)
       /\ \A i \in FuncRecords :
            /\ (InFunc(i, pc') /\ ~InFunc(i, pc)) =>
                 \/ Fetches("CALL") /\ pc' = cg.layout[i].from
                 \/ /\ Fetches("RET")
                    /\ frames # <<>>
                    /\ pc' = frames[Len(frames)].site + SizeofOpcode
            /\ ~TrailingPop(i, pc')]_vars

\* ----------------------------------------------------------------- C23

\* C23: for a module whose lets all have initialisers, depth_ is 0 whenever
\* Translate starts lowering a function declaration: the assertion at the
\* entry of LowerFuncDecl does not fail.
C23_DepthZeroAtFunctionEntry ==
  ModuleLetsInitialised(Modules[m]) =>
    cg.abort # "invalid stack depth in global scope"

\* ----------------------------------------------------------------- C24

\* The driver calls Translate a second time on the same Codegen object, for
\* any of the hand-written modules.  The first call moved code_ into the
\* Program, which leaves the vector empty; every other member is as the
\* first call left it.
InitReuse == Init /\ m \in 1..Len(Handwritten)
TranslateAgain ==
  /\ phase = "translated"
  /\ \E n \in 1..Len(Handwritten) :
       /\ m' = n
       /\ cg' = [Translate(cg, Modules[n]) EXCEPT !.code = <<>>]
       /\ prog' = Translate(cg, Modules[n]).code
       /\ phase' = IF Translate(cg, Modules[n]).abort = "" THEN "translated again"
                   ELSE IF Translate(cg, Modules[n]).abort = "expected empty code section"
                   THEN "rejected"
                   ELSE "aborted again"
  /\ UNCHANGED <<tree, pc, stack, status, fault, sink, frames, heights, last>>
NextReuse == DriverTranslate \/ TranslateAgain
SpecReuse == InitReuse /\ [][NextReuse]_vars

\* C24: a second Translate on a Codegen whose tables and label counter the
\* first call has populated is rejected by the precondition check.
C24_SecondTranslateRejected ==
  [][TranslateAgain => phase' = "rejected"]_vars

\* ----------------------------------------------------------------- C25

\* A token sequence 1 OP 2 ... whose first operator is a comparison, and the
\* node the parser built for that operator: the root, or its left operand
\* when a second comparison follows.
StartsWithComparison(toks) ==
  /\ Len(toks) >= 3
  /\ toks[1].kind = "INT"
  /\ toks[2].kind \in CompKinds
  /\ toks[3].kind = "INT"
FirstComparison(toks, expr) ==
  IF Len(toks) >= 4 /\ toks[4].kind \in CompKinds THEN expr.lhs ELSE expr

\* C25: the node ParseCompExpr builds for a OP b has the kind of the token OP
\* that stood between a and b, a as its left operand and b as its right
\* operand, whatever token follows b.
C25_KindOfOperatorToken ==
  (phase = "expression" /\ StartsWithComparison(Sources[m])) =>
    /\ FirstComparison(Sources[m], tree).kind = "BINARY"
    /\ FirstComparison(Sources[m], tree).op = Sources[m][2].kind
    /\ FirstComparison(Sources[m], tree).lhs = IntExpr(Sources[m][1].n)
    /\ Len(Sources[m]) = 3 =>
         FirstComparison(Sources[m], tree).rhs = IntExpr(Sources[m][3].n)

\* ----------------------------------------------------------------- C26

\* The nargs immediate of the RET at pc, and the number of arguments the
\* call site of the innermost activation lowered before its CALL.
RetNargs == FromBytes(ReadBytes(pc + 1 + SizeofUnsigned, SizeofUnsigned))
PushedAt(site) ==
  LET S == {i \in 1..Len(cg.calls) : cg.calls[i].off = site}
  IN  cg.calls[CHOOSE i \in S : TRUE].nargs
ReturnsFromCall == Fetches("RET") /\ frames # <<>>

\* C26: whenever a RET executes, its nargs immediate equals the number of
\* argument values the caller pushed for the activation being returned
\* from, and these values are the ones that lie under the return address.
C26_RetRemovesCallerArgs ==
  ReturnsFromCall =>
    LET f == frames[Len(frames)]
    IN  /\ RetNargs = PushedAt(f.site)
        /\ Len(f.below) >= RetNargs

\* A RET about to return from a call that passed two arguments.
C26_AtRetOfTwoArgs ==
  /\ ReturnsFromCall
  /\ PushedAt(frames[Len(frames)].site) = 2

\* ----------------------------------------------------------------- C27

\* The depth immediate of the RET at pc and the index of the stack slot RET
\* restores pc from: the one under the return value and depth further values.
RetDepth == FromBytes(ReadBytes(pc + 1, SizeofUnsigned))
RetSlot == Len(stack) - 1 - RetDepth

\* C27: whenever a RET executes, the stack is non-empty once the return value
\* and depth further values are removed, and its top is the Addr that the
\* CALL of the innermost activation pushed: never an Int, a Proto or nothing.
C27_RetRestoresCallAddr ==
  Fetches("RET") =>
    /\ RetSlot >= 1
    /\ stack[RetSlot].Kind = "ADDR"
    /\ frames # <<>>
    /\ frames[Len(frames)].base = RetSlot
    /\ stack[RetSlot].Val = ToBytes(frames[Len(frames)].site + 1, SizeofSizeT)
====
